---- MODULE Spec2Model ----
(***************************************************************************)
(* Model of the github-evidence-kit core of mbrg/raptor:                   *)
(*   - the evidence records (schema/events.py, schema/observations.py),    *)
(*   - EvidenceStore (store.py) and load_evidence_from_json (__init__.py), *)
(*   - ConsistencyVerifier (verifiers/consistency.py).                     *)
(*                                                                         *)
(* Python None is the empty sequence <<>>, a present optional value x is   *)
(* <<x>>.  A datetime is a point of Times; its JSON form is IsoFormat.     *)
(* An error message is a sequence of tokens (the literal text followed by  *)
(* the interpolated values of the f-string).                               *)
(***************************************************************************)
EXTENDS Integers, Sequences, FiniteSets, TLC

\* ---------------------------------------------------------------- bounds
MaxInit == 2        \* longest sequence handed to EvidenceStore(...) / from_json
MaxBatch == 2       \* longest sequence handed to add_all / longest merged store
MaxVerify == 2      \* longest collection handed to verify_all
MaxDoc == 2         \* longest store that is serialized and loaded back
MaxFilter == 2      \* longest store that filter is called on
MaxConstruct == 2   \* longest store built from constructed / deserialized records

\* ------------------------------------------------------------ python bits
None == <<>>
Some(x) == <<x>>

\* truthiness of an optional string / record field: None and "" are falsy
TruthyStr(o) == o # <<>> /\ o[1] # ""

\* getattr(e, f, default)
GetAttr(e, f, default) == IF f \in DOMAIN e THEN e[f] ELSE default

\* o if o is not None else default
OrElse(o, default) == IF o = None THEN default ELSE o[1]

SeqsUpTo(S, n) == UNION { [1..k -> S] : k \in 0..n }

Ids(seq) == { seq[k].evidence_id : k \in DOMAIN seq }

\* ------------------------------------------------------- schema/common.py
\* EvidenceSource: the five verification sources
GITHUB == "github"
GHARCHIVE == "gharchive"
WAYBACK == "wayback"
SECURITY_VENDOR == "security_vendor"
GIT == "git"
EvidenceSource == {GITHUB, GHARCHIVE, WAYBACK, SECURITY_VENDOR, GIT}

\* VerificationInfo(source, url, bigquery_table)
VerificationInfo(source, url, table) ==
    [source |-> source, url |-> url, bigquery_table |-> table]

\* GitHubRepository(owner, name, full_name)
GitHubRepository(owner, name) ==
    [owner |-> owner, name |-> name, full_name |-> <<owner, "/", name>>]

\* VerificationResult(is_valid, errors).  fetch_exc is a ghost field, not read
\* by any operator: the exception a fetch raised while the result was computed
VerificationResult(valid, errors) ==
    [is_valid |-> valid, errors |-> errors, fetch_exc |-> None]

\* ------------------------------------------------------- schema/events.py
EventTypes == {"push", "pull_request", "issue", "issue_comment", "create",
               "delete", "fork", "workflow_run", "release", "watch",
               "member", "public"}

\* fields every Event declares (class Event)
EventBaseFields == {"evidence_id", "when", "who", "what", "repository",
                    "verification"}

\* fields a variant adds to the base (the ones the store and the verifier
\* can tell apart; the remaining payload fields behave like "what")
EventVariantFields(t) ==
    CASE t = "push" -> {"ref", "is_force_push"}
      [] t \in {"create", "delete"} -> {"ref_name"}
      [] OTHER -> {}

Event(id, t, when, what, repo, ver) ==
    [evidence_id |-> id, event_type |-> t, when |-> when, who |-> "actor",
     what |-> what, repository |-> repo, verification |-> ver]

PushEvent(id, when, what, repo, ver, ref) ==
    [evidence_id |-> id, event_type |-> "push", when |-> when, who |-> "actor",
     what |-> what, repository |-> repo, verification |-> ver,
     ref |-> ref, is_force_push |-> FALSE]

\* ------------------------------------------------- schema/observations.py
ObservationTypes == {"commit", "issue", "file", "fork", "branch", "tag",
                     "release", "snapshot", "ioc", "article"}

\* fields every Observation declares (class Observation)
ObservationBaseFields == {"evidence_id", "original_when", "observed_when",
                          "observed_by", "observed_what", "repository",
                          "verification", "is_deleted"}

ObservationVariantFields(t) ==
    CASE t = "commit" -> {"sha", "message", "author", "is_dangling"}
      [] t = "issue" -> {"issue_number", "is_pull_request", "title", "state"}
      [] t = "file" -> {"file_path", "branch", "content_hash"}
      [] t = "fork" -> {"fork_full_name"}
      [] t = "branch" -> {"branch_name", "head_sha"}
      [] t = "tag" -> {"tag_name", "target_sha"}
      [] t = "release" -> {"tag_name"}
      [] t = "snapshot" -> {"original_url"}
      [] t = "ioc" -> {"value"}
      [] t = "article" -> {"url", "title"}

Observation(id, t, orig, obs, repo, ver, deleted) ==
    [evidence_id |-> id, observation_type |-> t, original_when |-> orig,
     observed_when |-> obs, observed_by |-> ver.source,
     observed_what |-> "found", repository |-> repo, verification |-> ver,
     is_deleted |-> deleted]

\* r extended with the fields of f that r does not have
With(r, f) == r @@ f

CommitObservation(id, orig, obs, repo, ver, deleted, sha, message, author, dangling) ==
    With(Observation(id, "commit", orig, obs, repo, ver, deleted),
         [sha |-> sha, message |-> message, author |-> [name |-> author],
          is_dangling |-> dangling])

IssueObservation(id, orig, obs, repo, ver, deleted, number, is_pr, title, state) ==
    With(Observation(id, "issue", orig, obs, repo, ver, deleted),
         [issue_number |-> number, is_pull_request |-> is_pr,
          title |-> title, state |-> state])

FileObservation(id, orig, obs, repo, ver, deleted, path, branch, hash) ==
    With(Observation(id, "file", orig, obs, repo, ver, deleted),
         [file_path |-> path, branch |-> branch, content_hash |-> hash])

ForkObservation(id, orig, obs, repo, ver, deleted, fork) ==
    With(Observation(id, "fork", orig, obs, repo, ver, deleted),
         [fork_full_name |-> fork])

BranchObservation(id, orig, obs, repo, ver, deleted, name, head) ==
    With(Observation(id, "branch", orig, obs, repo, ver, deleted),
         [branch_name |-> name, head_sha |-> head])

TagObservation(id, orig, obs, repo, ver, deleted, name, target) ==
    With(Observation(id, "tag", orig, obs, repo, ver, deleted),
         [tag_name |-> name, target_sha |-> target])

ReleaseObservation(id, orig, obs, repo, ver, deleted, name) ==
    With(Observation(id, "release", orig, obs, repo, ver, deleted),
         [tag_name |-> name])

SnapshotObservation(id, orig, obs, repo, ver, deleted, url) ==
    With(Observation(id, "snapshot", orig, obs, repo, ver, deleted),
         [original_url |-> url])

IOC(id, orig, obs, repo, ver, deleted, value) ==
    With(Observation(id, "ioc", orig, obs, repo, ver, deleted),
         [value |-> value])

ArticleObservation(id, orig, obs, repo, ver, deleted, url, title) ==
    With(Observation(id, "article", orig, obs, repo, ver, deleted),
         [url |-> url, title |-> title])

IsEvent(e) == "event_type" \in DOMAIN e
IsObservation(e) == "observation_type" \in DOMAIN e


\* --------------------------------------------------------- concrete values
Times == {1, 2, 3}
Repo == GitHubRepository("aws", "aws-toolkit-vscode")
Sha == "deadbeefdeadbeefdeadbeefdeadbeefdeadbeef"
Url == "https://example.com/evidence"
Table == "githubarchive.day.20250713"

\* the records the store operations draw their arguments from: a push Event,
\* two versions of a commit Observation under one id (is_dangling true and
\* false), and an indicator of compromise with no repository and no
\* original_when
StorePool ==
    { PushEvent("push-1", 1, "pushed 1 commit", Repo,
                VerificationInfo(GHARCHIVE, None, Some(Table)), "refs/heads/master"),
      CommitObservation("commit-1", Some(1), 2, Some(Repo),
                        VerificationInfo(GITHUB, Some(Url), None),
                        FALSE, Sha, "fix", "alice", TRUE),
      CommitObservation("commit-1", Some(1), 2, Some(Repo),
                        VerificationInfo(GITHUB, Some(Url), None),
                        FALSE, Sha, "fix", "alice", FALSE),
      IOC("ioc-1", None, 3, None, VerificationInfo(SECURITY_VENDOR, Some(Url), None),
          FALSE, "evil.example") }

\* one record of every concrete variant: the twelve Events and the ten
\* Observations, with optional fields both set and left None
VariantSamples ==
    { PushEvent("ev-push", 1, "pushed", Repo,
                VerificationInfo(GHARCHIVE, None, Some(Table)), "refs/heads/master"),
      With(Event("ev-create", "create", 2, "created", Repo,
                 VerificationInfo(GHARCHIVE, None, Some(Table))), [ref_name |-> "v1.0"]),
      With(Event("ev-delete", "delete", 3, "deleted", Repo,
                 VerificationInfo(GIT, None, None)), [ref_name |-> "stability"]) }
    \cup { Event(t, t, 2, "happened", Repo, VerificationInfo(GHARCHIVE, None, Some(Table))) :
             t \in EventTypes \ {"push", "create", "delete"} }
    \cup
    { CommitObservation("ob-commit", Some(1), 2, Some(Repo),
                        VerificationInfo(GITHUB, Some(Url), None),
                        FALSE, Sha, "fix", "alice", TRUE),
      IssueObservation("ob-issue", None, 2, Some(Repo),
                       VerificationInfo(GITHUB, Some(Url), None),
                       TRUE, 7710, TRUE, Some("Revert"), Some("merged")),
      FileObservation("ob-file", Some(3), 3, Some(Repo),
                      VerificationInfo(GITHUB, None, None),
                      FALSE, "scripts/extensionNode.bk", None, Some("abc123")),
      ForkObservation("ob-fork", None, 1, Some(Repo),
                      VerificationInfo(GITHUB, Some(Url), None), TRUE, "evil/fork"),
      BranchObservation("ob-branch", None, 1, Some(Repo),
                        VerificationInfo(GITHUB, None, None), FALSE, "master", Some(Sha)),
      TagObservation("ob-tag", None, 1, Some(Repo),
                     VerificationInfo(GIT, None, None), FALSE, "v1.0", None),
      ReleaseObservation("ob-release", Some(2), 3, Some(Repo),
                         VerificationInfo(GITHUB, None, None), TRUE, "v1.0"),
      SnapshotObservation("ob-snapshot", None, 3, None,
                          VerificationInfo(WAYBACK, Some(Url), None), FALSE, Url),
      IOC("ob-ioc", None, 3, None, VerificationInfo(SECURITY_VENDOR, Some(Url), None),
          FALSE, "evil.example"),
      ArticleObservation("ob-article", Some(1), 2, None,
                         VerificationInfo(SECURITY_VENDOR, Some(Url), None),
                         FALSE, Url, "Incident report") }

\* the sequences handed to add_all / merge
Batches == SeqsUpTo(StorePool, MaxBatch)

StoreIds == { r.evidence_id : r \in StorePool } \cup {"nonexistent"}

\* ----------------------------------------------------------------- state
VARIABLES
    evidence,   \* EvidenceStore._evidence: list of records
    by_id,      \* EvidenceStore._by_id: dict evidence_id -> record
    last        \* the last operation applied: its name, arguments and result

storeVars == <<evidence, by_id, last>>

VARIABLES
    vpc,        \* verify_all: "idle", "running" (inside the for loop), "done"
    vi,         \* verify_all: index of the next record of the loop
    all_valid,  \* verify_all: local all_valid
    all_errors, \* verify_all: local all_errors
    results,    \* the VerificationResult verify() returned for each record so far
    answers,    \* what the sources answered for each record so far in this pass
    prev        \* the answers and the result of the previous pass, or None

verifyVars == <<vpc, vi, all_valid, all_errors, results, answers, prev>>

VARIABLES
    wpc,        \* writer thread: the statement of store.py it executes next
    warg,       \* writer thread: the arguments of its call
    seen        \* reader thread: the ids it last saw in the list and in the index

concVars == <<wpc, warg, seen>>

vars == <<evidence, by_id, last, vpc, vi, all_valid, all_errors, results,
          answers, prev, wpc, warg, seen>>

\* -------------------------------------------------------------- store.py
\* the store as a value: the two fields of an EvidenceStore
Store(ev, idx) == [evidence |-> ev, by_id |-> idx]

\* {e.evidence_id: e for e in seq}: a later entry overwrites an earlier one
DictById(seq) ==
    [i \in Ids(seq) |->
        seq[CHOOSE k \in DOMAIN seq :
               /\ seq[k].evidence_id = i
               /\ \A j \in DOMAIN seq : seq[j].evidence_id = i => j <= k]]

\* EvidenceStore.__init__(evidence)
StoreNew(seq) == Store(seq, DictById(seq))

Without(seq, id) == SelectSeq(seq, LAMBDA e : e.evidence_id # id)

\* add that overwrites the entry of a held id where it stands
add_inplace(s, e) ==
    LET kept == IF e.evidence_id \in DOMAIN s.by_id
                THEN [k \in DOMAIN s.evidence |->
                        IF s.evidence[k].evidence_id = e.evidence_id THEN e
                        ELSE s.evidence[k]]
                ELSE Append(s.evidence, e)
    IN Store(kept, (e.evidence_id :> e) @@ s.by_id)

\* EvidenceStore.add
add(s, e) ==
    LET kept == IF e.evidence_id \in DOMAIN s.by_id
                THEN Without(s.evidence, e.evidence_id)
                ELSE s.evidence
    IN Store(Append(kept, e), (e.evidence_id :> e) @@ s.by_id)

\* EvidenceStore.add_all
RECURSIVE add_all(_, _)
add_all(s, list) ==
    IF list = <<>> THEN s ELSE add_all(add(s, Head(list)), Tail(list))

\* EvidenceStore.get: the record or None
get(s, id) == IF id \in DOMAIN s.by_id THEN Some(s.by_id[id]) ELSE None

\* EvidenceStore.remove: the pair <<store after, returned flag>>
remove(s, id) ==
    IF id \in DOMAIN s.by_id
    THEN <<Store(Without(s.evidence, id),
                 [i \in DOMAIN s.by_id \ {id} |-> s.by_id[i]]), TRUE>>
    ELSE <<s, FALSE>>

\* EvidenceStore.clear
clear(s) == Store(<<>>, <<>>)

\* EvidenceStore.__len__
len(s) == Len(s.evidence)

\* EvidenceStore.__contains__
contains(s, id) == id \in DOMAIN s.by_id

\* merge that extends the list with the other store's records
merge_appending(s, other) ==
    Store(s.evidence \o other.evidence, DictById(s.evidence \o other.evidence))

\* EvidenceStore.merge: add_all(list(other))
merge(s, other) == add_all(s, other.evidence)

\* _get_timestamp that looks at the observer's time before the original one
get_timestamp_observed(e) ==
    IF "when" \in DOMAIN e THEN Some(e.when)
    ELSE IF "observed_when" \in DOMAIN e THEN Some(e.observed_when)
    ELSE IF "original_when" \in DOMAIN e /\ e.original_when # None
    THEN e.original_when
    ELSE None

\* EvidenceStore._get_timestamp: when, else a set original_when, else
\* observed_when, else None
get_timestamp(e) ==
    IF "when" \in DOMAIN e THEN Some(e.when)
    ELSE IF "original_when" \in DOMAIN e /\ e.original_when # None
    THEN e.original_when
    ELSE IF "observed_when" \in DOMAIN e THEN Some(e.observed_when)
    ELSE None

\* the keyword arguments of filter, each None when not supplied
FilterArgs(event_type, observation_type, source, repo, after, before, predicate) ==
    [event_type |-> event_type, observation_type |-> observation_type,
     source |-> source, repo |-> repo, after |-> after, before |-> before,
     predicate |-> predicate]

\* the callables handed to filter(predicate=...), by name
ApplyPredicate(p, e) ==
    CASE p = "not_deleted" -> ~GetAttr(e, "is_deleted", FALSE)

\* getattr(e, "repository", None): a GitHubRepository or None
RepositoryOf(e) ==
    IF "repository" \notin DOMAIN e THEN None
    ELSE IF IsEvent(e) THEN Some(e.repository)
    ELSE e.repository

\* EvidenceSource(source): the member with that value, ValueError for a
\* string that is no member's value
EvidenceSourceOf(source) ==
    IF source \in EvidenceSource THEN [err |-> None, val |-> Some(source)]
    ELSE [err |-> Some(<<"ValueError:", source, "is not a valid EvidenceSource">>),
          val |-> None]

\* the time checks of matches (store.py:109-114)
InBounds(e, after, before) ==
    LET ts == get_timestamp(e)
    IN ts # None =>
          /\ ~(after # None /\ ts[1] < after[1])
          /\ ~(before # None /\ ts[1] > before[1])

\* matches in which the first criterion supplied decides alone (an elif chain)
matches_first(e, c) ==
    IF TruthyStr(c.event_type)
    THEN [err |-> None,
          val |-> Some(GetAttr(e, "event_type", "") = c.event_type[1])]
    ELSE IF TruthyStr(c.observation_type)
    THEN [err |-> None,
          val |-> Some(GetAttr(e, "observation_type", "") = c.observation_type[1])]
    ELSE IF TruthyStr(c.source) /\ EvidenceSourceOf(c.source[1]).err # None
    THEN EvidenceSourceOf(c.source[1])
    ELSE IF TruthyStr(c.source)
    THEN [err |-> None, val |-> Some(e.verification.source = c.source[1])]
    ELSE [err |-> None,
          val |-> Some(/\ c.repo # None =>
                            /\ RepositoryOf(e) # None
                            /\ RepositoryOf(e)[1].full_name = c.repo[1]
                       /\ InBounds(e, c.after, c.before)
                       /\ c.predicate # None => ApplyPredicate(c.predicate[1], e))]

\* EvidenceStore.filter.matches: [err, val] as for a call that returns a
\* boolean or raises
matches(e, c) ==
    IF TruthyStr(c.event_type) /\ GetAttr(e, "event_type", "") # c.event_type[1]
    THEN [err |-> None, val |-> Some(FALSE)]
    ELSE IF /\ TruthyStr(c.observation_type)
            /\ GetAttr(e, "observation_type", "") # c.observation_type[1]
    THEN [err |-> None, val |-> Some(FALSE)]
    ELSE IF TruthyStr(c.source) /\ EvidenceSourceOf(c.source[1]).err # None
    THEN EvidenceSourceOf(c.source[1])
    ELSE IF TruthyStr(c.source) /\ e.verification.source # c.source[1]
    THEN [err |-> None, val |-> Some(FALSE)]
    ELSE IF c.repo # None /\ (\/ RepositoryOf(e) = None
                              \/ RepositoryOf(e)[1].full_name # c.repo[1])
    THEN [err |-> None, val |-> Some(FALSE)]
    ELSE IF ~InBounds(e, c.after, c.before)
    THEN [err |-> None, val |-> Some(FALSE)]
    ELSE IF c.predicate # None /\ ~ApplyPredicate(c.predicate[1], e)
    THEN [err |-> None, val |-> Some(FALSE)]
    ELSE [err |-> None, val |-> Some(TRUE)]

\* EvidenceStore.filter: [e for e in self._evidence if matches(e)]; the first
\* record whose matches raises ends the call
filter(s, c) ==
    IF \E k \in DOMAIN s.evidence : matches(s.evidence[k], c).err # None
    THEN LET k == CHOOSE i \in DOMAIN s.evidence :
                    /\ matches(s.evidence[i], c).err # None
                    /\ \A j \in DOMAIN s.evidence :
                          matches(s.evidence[j], c).err # None => i <= j
         IN [err |-> matches(s.evidence[k], c).err, val |-> None]
    ELSE [err |-> None,
          val |-> Some(SelectSeq(s.evidence, LAMBDA e : matches(e, c).val[1]))]

\* counts[key] = counts.get(key, 0) + 1
Increment(counts, key) ==
    IF key \in DOMAIN counts THEN [counts EXCEPT ![key] = @ + 1]
    ELSE counts @@ (key :> 1)

\* the for loop of summary over the entries from position k on
RECURSIVE summary_loop(_, _, _)
summary_loop(list, k, acc) ==
    IF k > Len(list) THEN acc
    ELSE LET e == list[k]
             ev == IF "event_type" \in DOMAIN e
                   THEN Increment(acc.events, e.event_type) ELSE acc.events
             ob == IF "observation_type" \in DOMAIN e
                   THEN Increment(acc.observations, e.observation_type)
                   ELSE acc.observations
             src == Increment(acc.by_source, e.verification.source)
         IN summary_loop(list, k + 1,
                         [events |-> ev, observations |-> ob, by_source |-> src])

\* summary that records a key as seen instead of counting it
summary_flags(s) ==
    LET list == s.evidence
        Seen(S) == [key \in S |-> 1]
    IN [total |-> Len(list),
        events |-> Seen({ list[k].event_type :
                            k \in { j \in DOMAIN list : "event_type" \in DOMAIN list[j] } }),
        observations |-> Seen({ list[k].observation_type :
                            k \in { j \in DOMAIN list :
                                       "observation_type" \in DOMAIN list[j] } }),
        by_source |-> Seen({ list[k].verification.source : k \in DOMAIN list })]

\* EvidenceStore.summary
summary(s) ==
    LET counts == summary_loop(s.evidence, 1,
                               [events |-> <<>>, observations |-> <<>>,
                                by_source |-> <<>>])
    IN [total |-> Len(s.evidence),
        events |-> counts.events,
        observations |-> counts.observations,
        by_source |-> counts.by_source]

Self == Store(evidence, by_id)

SetStore(s) == evidence' = s.evidence /\ by_id' = s.by_id


\* ------------------------------------------- serialization (pydantic, json)
\* datetime -> its ISO-8601 text (model_dump(mode="json"))
IsoFormat(t) ==
    CASE t = 1 -> "2025-07-13T20:30:24Z"
      [] t = 2 -> "2025-07-13T20:37:04Z"
      [] t = 3 -> "2025-07-19T11:02:00Z"

\* ISO-8601 text -> datetime, None when the text is no date-time
ParseDatetime(txt) ==
    IF \E t \in Times : IsoFormat(t) = txt
    THEN Some(CHOOSE t \in Times : IsoFormat(t) = txt)
    ELSE None

DatetimeFields == {"when", "observed_when"}
OptDatetimeFields == {"original_when"}

DumpField(f, v) ==
    IF f \in DatetimeFields THEN IsoFormat(v)
    ELSE IF f \in OptDatetimeFields
         THEN (IF v = None THEN None ELSE Some(IsoFormat(v[1])))
         ELSE v

\* model_dump that leaves out the fields holding their default, the
\* discriminator being one of them (exclude_defaults=True)
model_dump_untagged(e) ==
    [f \in DOMAIN e \ {"event_type", "observation_type"} |-> DumpField(f, e[f])]

\* BaseModel.model_dump(mode="json"): every field of the record, the
\* discriminator included, date-times as text
model_dump(e) == [f \in DOMAIN e |-> DumpField(f, e[f])]

\* EvidenceStore.to_json: the JSON array of the dumped records, in list order
to_json(s) == [k \in DOMAIN s.evidence |-> model_dump(s.evidence[k])]

\* the fields a concrete class declares, by discriminator
EventFields(t) == EventBaseFields \cup {"event_type"} \cup EventVariantFields(t)
ObservationFields(t) ==
    ObservationBaseFields \cup {"observation_type"} \cup ObservationVariantFields(t)

\* declared defaults: a field with a default may be absent from the input
FieldDefaults ==
    [is_force_push |-> FALSE, original_when |-> None, repository |-> None,
     is_deleted |-> FALSE, is_dangling |-> FALSE, is_pull_request |-> FALSE,
     title |-> None, state |-> None, branch |-> None, content_hash |-> None,
     head_sha |-> None, target_sha |-> None]

\* CommitObservation.sha: Field(min_length=40, max_length=40)
ShaLength == 40

\* field validation: the parsed value, or None when the value is rejected
ParseField(f, v) ==
    IF f \in DatetimeFields THEN ParseDatetime(v)
    ELSE IF f \in OptDatetimeFields
         THEN (IF v = None THEN Some(None)
               ELSE IF ParseDatetime(v[1]) = None THEN None
               ELSE Some(ParseDatetime(v[1])))
         ELSE IF f = "verification"
              THEN (IF v.source \in EvidenceSource THEN Some(v) ELSE None)
              ELSE IF f = "sha"
                   THEN (IF Len(v) = ShaLength THEN Some(v) ELSE None)
                   ELSE Some(v)

\* validation of a dict against the class with field set fields: unknown keys
\* are ignored, absent keys take their default, a missing required key or a
\* rejected value fails.  Result: <<record>> or None
ValidateModel(data, fields) ==
    LET present == fields \cap DOMAIN data
        absent == fields \ DOMAIN data
    IN IF /\ absent \subseteq DOMAIN FieldDefaults
          /\ \A f \in present : ParseField(f, data[f]) # None
       THEN Some([f \in fields |->
                    IF f \in present THEN ParseField(f, data[f])[1]
                    ELSE FieldDefaults[f]])
       ELSE None

\* _event_adapter.validate_python: the union discriminated by event_type
event_adapter(data) ==
    IF data.event_type \in EventTypes
    THEN ValidateModel(data, EventFields(data.event_type))
    ELSE None

\* _observation_adapter.validate_python: discriminated by observation_type
observation_adapter(data) ==
    IF data.observation_type \in ObservationTypes
    THEN ValidateModel(data, ObservationFields(data.observation_type))
    ELSE None

Ok(v) == [err |-> None, val |-> Some(v)]
Raise(tokens) == [err |-> Some(tokens), val |-> None]
Raised(res) == res.err # None

\* load_evidence_from_json
load_evidence_from_json(data) ==
    IF "event_type" \in DOMAIN data
    THEN (IF event_adapter(data) # None
          THEN Ok(event_adapter(data)[1])
          ELSE Raise(<<"Unknown event_type:", data.event_type>>))
    ELSE IF "observation_type" \in DOMAIN data
         THEN (IF observation_adapter(data) # None
               THEN Ok(observation_adapter(data)[1])
               ELSE Raise(<<"Unknown observation_type:", data.observation_type>>))
         ELSE Raise(<<"Data must contain 'event_type' or 'observation_type' field">>)

\* from_json that drops the items it cannot classify and loads the rest
from_json_skipping(doc) ==
    LET good == SelectSeq(doc, LAMBDA d : ~Raised(load_evidence_from_json(d)))
    IN Ok(StoreNew([k \in DOMAIN good |-> load_evidence_from_json(good[k]).val[1]]))

\* EvidenceStore.from_json: cls([load_evidence_from_json(item) for item in
\* data]); the first item that raises ends the call, no store is returned
from_json(doc) ==
    IF \E k \in DOMAIN doc : Raised(load_evidence_from_json(doc[k]))
    THEN LET k == CHOOSE i \in DOMAIN doc :
                    /\ Raised(load_evidence_from_json(doc[i]))
                    /\ \A j \in DOMAIN doc :
                          Raised(load_evidence_from_json(doc[j])) => i <= j
         IN Raise(load_evidence_from_json(doc[k]).err[1])
    ELSE Ok(StoreNew([k \in DOMAIN doc |-> load_evidence_from_json(doc[k]).val[1]]))


\* ------------------------------------------- the sources' answers (stubs)
\* what a fetch raises: requests.RequestException instances (HTTP error
\* status, timeout)
Causes == {"404 Client Error: Not Found", "Read timed out"}

\* the JSON a source returns for record e when it still agrees with e
Matching(e) ==
    [sha |-> GetAttr(e, "sha", ""),
     message |-> GetAttr(e, "message", ""),
     author |-> IF "author" \in DOMAIN e THEN e.author.name ELSE "",
     number |-> GetAttr(e, "issue_number", 0),
     title |-> IF GetAttr(e, "observation_type", "") = "issue"
               THEN OrElse(e.title, "") ELSE "",
     state |-> IF OrElse(GetAttr(e, "state", None), "open") = "merged"
               THEN "closed" ELSE OrElse(GetAttr(e, "state", None), "open"),
     merged |-> OrElse(GetAttr(e, "state", None), "open") = "merged",
     content_hash |-> OrElse(GetAttr(e, "content_hash", None), ""),
     head_sha |-> OrElse(GetAttr(e, "head_sha", None), ""),
     target_sha |-> OrElse(GetAttr(e, "target_sha", None), ""),
     tag_name |-> GetAttr(e, "tag_name", "")]

\* the same JSON with the fields of F changed at the source
Drifted(d, F) ==
    [f \in DOMAIN d |->
        IF f \notin F THEN d[f]
        ELSE IF f = "number" THEN d[f] + 1
        ELSE IF f = "merged" THEN ~d[f]
        ELSE IF f = "state" THEN (IF d[f] = "open" THEN "closed" ELSE "open")
        ELSE "changed"]

\* the fields of the answer a strategy compares, by observation type
ComparedFields(e) ==
    LET t == GetAttr(e, "observation_type", "")
    IN CASE t = "commit" -> {"sha", "message", "author"}
         [] t = "issue" -> {"number", "title", "state", "merged"}
         [] t = "file" -> {"content_hash"}
         [] t = "branch" -> {"head_sha"}
         [] t = "tag" -> {"target_sha"}
         [] t = "release" -> {"tag_name"}
         [] OTHER -> {}

\* an answer: the call raises exc, or returns data; found tells whether the
\* fetched text holds the indicator / the archive query returned a row
\* creds tells whether GHArchiveClient._get_client() succeeds
Answer(creds, exc, data, found) ==
    [creds |-> creds, exc |-> exc, data |-> data, found |-> found]

\* no source is asked: local-git records, and Events of any source but the
\* archive
Unasked(e) == Answer(FALSE, None, Matching(e), FALSE)

\* the answers record e can get from the source its strategy asks: the call
\* raises, or returns the record's data, unchanged or drifted; the archive is
\* asked only with credentials
Answers(e) ==
    LET src == e.verification.source
        creds == (src = GHARCHIVE)
        drifts == IF src = GITHUB THEN SUBSET ComparedFields(e) ELSE {{}}
        founds == IF src \in {GHARCHIVE, SECURITY_VENDOR} THEN BOOLEAN ELSE {FALSE}
        failed == { Answer(creds, Some(c), Matching(e), FALSE) : c \in Causes }
        fetched == { Answer(creds, None, Drifted(Matching(e), F), b) :
                       F \in drifts, b \in founds }
    IN CASE src = GIT \/ (IsEvent(e) /\ src # GHARCHIVE) -> {Unasked(e)}
         [] src = GHARCHIVE -> {Unasked(e)} \cup failed \cup fetched
         [] OTHER -> failed \cup fetched

\* ------------------------------------------------ verifiers/consistency.py
\* an exception leaving a function
Exc(c) == [exc |-> c]
IsExc(r) == "exc" \in DOMAIN r

\* a result computed in an except clause that caught c
Caught(valid, errors, c) ==
    [is_valid |-> valid, errors |-> errors, fetch_exc |-> Some(c)]

\* ConsistencyVerifier._get_repo_info
get_repo_info(obs) ==
    IF obs.repository = None THEN None
    ELSE Some(<<obs.repository[1].owner, obs.repository[1].name>>)

\* _verify_commit that compares the SHA only
verify_commit_shaonly(obs, ans) ==
    IF get_repo_info(obs) = None
    THEN VerificationResult(FALSE, <<<<"No repository specified">>>>)
    ELSE IF GetAttr(obs, "sha", "") = ""
    THEN VerificationResult(FALSE, <<<<"No SHA specified">>>>)
    ELSE IF ans.exc # None THEN Exc(ans.exc[1])
    ELSE IF ans.data.sha # obs.sha
    THEN VerificationResult(FALSE, <<<<"SHA mismatch: expected", obs.sha,
                                       ", got", ans.data.sha>>>>)
    ELSE VerificationResult(TRUE, <<>>)

\* ConsistencyVerifier._verify_commit
verify_commit(obs, ans) ==
    IF get_repo_info(obs) = None
    THEN VerificationResult(FALSE, <<<<"No repository specified">>>>)
    ELSE IF GetAttr(obs, "sha", "") = ""
    THEN VerificationResult(FALSE, <<<<"No SHA specified">>>>)
    ELSE IF ans.exc # None THEN Exc(ans.exc[1])
    ELSE LET e1 == IF ans.data.sha # obs.sha
                   THEN <<<<"SHA mismatch: expected", obs.sha, ", got", ans.data.sha>>>>
                   ELSE <<>>
             e2 == IF "message" \in DOMAIN obs /\ obs.message # ans.data.message
                   THEN <<<<"Message mismatch">>>> ELSE <<>>
             e3 == IF "author" \in DOMAIN obs /\ obs.author.name # ans.data.author
                   THEN <<<<"Author mismatch: expected", obs.author.name,
                            ", got", ans.data.author>>>>
                   ELSE <<>>
             errors == e1 \o e2 \o e3
         IN VerificationResult(errors = <<>>, errors)

\* _verify_issue that compares the recorded state with the raw state field
verify_issue_rawstate(obs, ans) ==
    IF get_repo_info(obs) = None
    THEN VerificationResult(FALSE, <<<<"No repository specified">>>>)
    ELSE IF GetAttr(obs, "issue_number", 0) = 0
    THEN VerificationResult(FALSE, <<<<"No issue number specified">>>>)
    ELSE IF ans.exc # None THEN Exc(ans.exc[1])
    ELSE LET e1 == IF ans.data.number # obs.issue_number
                   THEN <<<<"Number mismatch: expected", ToString(obs.issue_number),
                            ", got", ToString(ans.data.number)>>>>
                   ELSE <<>>
             e2 == IF /\ "title" \in DOMAIN obs /\ TruthyStr(obs.title)
                      /\ ans.data.title # obs.title[1]
                   THEN <<<<"Title mismatch">>>> ELSE <<>>
             e3 == IF /\ "state" \in DOMAIN obs /\ TruthyStr(obs.state)
                      /\ obs.state[1] # ans.data.state
                   THEN <<<<"State mismatch: expected", obs.state[1],
                            ", got", ans.data.state>>>>
                   ELSE <<>>
             errors == e1 \o e2 \o e3
         IN VerificationResult(errors = <<>>, errors)

\* ConsistencyVerifier._verify_issue
verify_issue(obs, ans) ==
    IF get_repo_info(obs) = None
    THEN VerificationResult(FALSE, <<<<"No repository specified">>>>)
    ELSE IF GetAttr(obs, "issue_number", 0) = 0
    THEN VerificationResult(FALSE, <<<<"No issue number specified">>>>)
    ELSE IF ans.exc # None THEN Exc(ans.exc[1])
    ELSE LET actual == IF ans.data.merged THEN "merged" ELSE ans.data.state
             e1 == IF ans.data.number # obs.issue_number
                   THEN <<<<"Number mismatch: expected", ToString(obs.issue_number),
                            ", got", ToString(ans.data.number)>>>>
                   ELSE <<>>
             e2 == IF /\ "title" \in DOMAIN obs /\ TruthyStr(obs.title)
                      /\ ans.data.title # obs.title[1]
                   THEN <<<<"Title mismatch">>>> ELSE <<>>
             e3 == IF /\ "state" \in DOMAIN obs /\ TruthyStr(obs.state)
                      /\ obs.state[1] # actual
                   THEN <<<<"State mismatch: expected", obs.state[1], ", got", actual>>>>
                   ELSE <<>>
             errors == e1 \o e2 \o e3
         IN VerificationResult(errors = <<>>, errors)

\* ConsistencyVerifier._verify_file
verify_file(obs, ans) ==
    IF get_repo_info(obs) = None
    THEN VerificationResult(FALSE, <<<<"No repository specified">>>>)
    ELSE IF GetAttr(obs, "file_path", "") = ""
    THEN VerificationResult(FALSE, <<<<"No file path specified">>>>)
    ELSE IF ans.exc # None THEN Exc(ans.exc[1])
    ELSE IF /\ "content_hash" \in DOMAIN obs /\ TruthyStr(obs.content_hash)
            /\ obs.content_hash[1] # ans.data.content_hash
    THEN VerificationResult(FALSE, <<<<"Content hash mismatch">>>>)
    ELSE VerificationResult(TRUE, <<>>)

\* ConsistencyVerifier._verify_branch
verify_branch(obs, ans) ==
    IF get_repo_info(obs) = None
    THEN VerificationResult(FALSE, <<<<"No repository specified">>>>)
    ELSE IF GetAttr(obs, "branch_name", "") = ""
    THEN VerificationResult(FALSE, <<<<"No branch name specified">>>>)
    ELSE IF ans.exc # None THEN Exc(ans.exc[1])
    ELSE IF /\ "head_sha" \in DOMAIN obs /\ TruthyStr(obs.head_sha)
            /\ obs.head_sha[1] # ans.data.head_sha
    THEN VerificationResult(FALSE, <<<<"HEAD SHA mismatch: expected", obs.head_sha[1],
                                       ", got", ans.data.head_sha>>>>)
    ELSE VerificationResult(TRUE, <<>>)

\* ConsistencyVerifier._verify_tag
verify_tag(obs, ans) ==
    IF get_repo_info(obs) = None
    THEN VerificationResult(FALSE, <<<<"No repository specified">>>>)
    ELSE IF GetAttr(obs, "tag_name", "") = ""
    THEN VerificationResult(FALSE, <<<<"No tag name specified">>>>)
    ELSE IF ans.exc # None THEN Exc(ans.exc[1])
    ELSE IF /\ "target_sha" \in DOMAIN obs /\ TruthyStr(obs.target_sha)
            /\ obs.target_sha[1] # ans.data.target_sha
    THEN VerificationResult(FALSE, <<<<"Target SHA mismatch: expected", obs.target_sha[1],
                                       ", got", ans.data.target_sha>>>>)
    ELSE VerificationResult(TRUE, <<>>)

\* ConsistencyVerifier._verify_release
verify_release(obs, ans) ==
    IF get_repo_info(obs) = None
    THEN VerificationResult(FALSE, <<<<"No repository specified">>>>)
    ELSE IF GetAttr(obs, "tag_name", "") = ""
    THEN VerificationResult(FALSE, <<<<"No tag name specified">>>>)
    ELSE IF ans.exc # None THEN Exc(ans.exc[1])
    ELSE IF ans.data.tag_name # obs.tag_name
    THEN VerificationResult(FALSE, <<<<"Tag name mismatch">>>>)
    ELSE VerificationResult(TRUE, <<>>)

\* _verify_url_accessible that treats an unreachable URL as nothing to check
verify_url_accessible_besteffort(obs, ans) == VerificationResult(TRUE, <<>>)

\* ConsistencyVerifier._verify_url_accessible
verify_url_accessible(obs, ans) ==
    IF ~TruthyStr(obs.verification.url) THEN VerificationResult(TRUE, <<>>)
    ELSE IF ans.exc = None THEN VerificationResult(TRUE, <<>>)
    ELSE Caught(FALSE, <<<<"Failed to access URL:", ans.exc[1]>>>>, ans.exc[1])

\* ConsistencyVerifier._verify_security_vendor
verify_security_vendor(obs, ans) ==
    IF ~TruthyStr(obs.verification.url)
    THEN VerificationResult(FALSE, <<<<"No source URL specified">>>>)
    ELSE IF ans.exc # None
    THEN Caught(FALSE, <<<<"Failed to fetch source URL:", ans.exc[1]>>>>, ans.exc[1])
    ELSE IF /\ GetAttr(obs, "observation_type", "") = "ioc"
            /\ GetAttr(obs, "value", "") # ""
            /\ ~ans.found
    THEN VerificationResult(FALSE, <<<<"IOC value", obs.value, "not found in source">>>>)
    ELSE VerificationResult(TRUE, <<>>)

\* ConsistencyVerifier._verify_gharchive_event
verify_gharchive_event(event, ans) ==
    IF ~TruthyStr(event.verification.bigquery_table)
    THEN VerificationResult(FALSE, <<<<"No BigQuery table specified">>>>)
    ELSE IF ~ans.creds
    THEN VerificationResult(TRUE, <<<<"GH Archive verification skipped - no credentials">>>>)
    ELSE IF ans.exc # None
    THEN Caught(FALSE, <<<<"GH Archive verification error:", ans.exc[1]>>>>, ans.exc[1])
    ELSE IF ~ans.found
    THEN VerificationResult(FALSE, <<<<"No matching event found in GH Archive">>>>)
    ELSE VerificationResult(TRUE, <<>>)

\* ConsistencyVerifier._verify_gharchive_observation
verify_gharchive_observation(obs, ans) ==
    IF ~TruthyStr(obs.verification.bigquery_table)
    THEN VerificationResult(FALSE, <<<<"No BigQuery table specified">>>>)
    ELSE IF ~ans.creds
    THEN VerificationResult(TRUE, <<<<"GH Archive verification skipped - no credentials">>>>)
    ELSE VerificationResult(TRUE, <<>>)

\* the strategy _verify_github_observation looks up by observation_type
GithubStrategy(obs, ans) ==
    LET t == GetAttr(obs, "observation_type", "")
    IN CASE t = "commit" -> verify_commit(obs, ans)
         [] t = "issue" -> verify_issue(obs, ans)
         [] t = "file" -> verify_file(obs, ans)
         [] t = "branch" -> verify_branch(obs, ans)
         [] t = "tag" -> verify_tag(obs, ans)
         [] t = "release" -> verify_release(obs, ans)
         [] OTHER -> verify_url_accessible(obs, ans)

\* _verify_github_observation whose except clause ignores is_deleted
verify_github_observation_strict(obs, ans) ==
    LET r == GithubStrategy(obs, ans)
    IN IF IsExc(r)
       THEN Caught(FALSE, <<<<"Verification failed:", r.exc>>>>, r.exc)
       ELSE r

\* _verify_github_observation that takes a record marked deleted on trust
verify_github_observation_trusting(obs, ans) ==
    LET r == GithubStrategy(obs, ans)
    IN IF GetAttr(obs, "is_deleted", FALSE)
       THEN (IF IsExc(r) THEN Caught(TRUE, <<>>, r.exc)
             ELSE VerificationResult(TRUE, <<>>))
       ELSE IF IsExc(r)
            THEN Caught(FALSE, <<<<"Verification failed:", r.exc>>>>, r.exc)
            ELSE r

\* ConsistencyVerifier._verify_github_observation
verify_github_observation(obs, ans) ==
    LET r == GithubStrategy(obs, ans)
    IN IF IsExc(r)
       THEN (IF GetAttr(obs, "is_deleted", FALSE)
             THEN Caught(TRUE, <<>>, r.exc)
             ELSE Caught(FALSE, <<<<"Verification failed:", r.exc>>>>, r.exc))
       ELSE r

NotSupported ==
    VerificationResult(TRUE, <<<<"Local git verification not supported">>>>)

\* _verify_event that lets a source it has no strategy for pass
verify_event_lenient(event, ans) ==
    IF event.verification.source = GHARCHIVE THEN verify_gharchive_event(event, ans)
    ELSE NotSupported

\* ConsistencyVerifier._verify_event
verify_event(event, ans) ==
    LET source == event.verification.source
    IN IF source = GHARCHIVE THEN verify_gharchive_event(event, ans)
       ELSE IF source = GIT THEN NotSupported
       ELSE VerificationResult(FALSE,
                <<<<"Unknown verification source for event:", source>>>>)

\* ConsistencyVerifier._verify_observation
verify_observation(obs, ans) ==
    LET source == obs.verification.source
    IN CASE source = GITHUB -> verify_github_observation(obs, ans)
         [] source = GHARCHIVE -> verify_gharchive_observation(obs, ans)
         [] source = WAYBACK -> verify_url_accessible(obs, ans)
         [] source = SECURITY_VENDOR -> verify_security_vendor(obs, ans)
         [] source = GIT -> NotSupported
         [] OTHER -> VerificationResult(FALSE,
                        <<<<"Unknown verification source:", source>>>>)

\* ConsistencyVerifier.verify
verify(e, ans) ==
    IF IsEvent(e) THEN verify_event(e, ans)
    ELSE IF IsObservation(e) THEN verify_observation(e, ans)
    ELSE VerificationResult(FALSE, <<<<"Unknown evidence type">>>>)

\* f"[{evidence_id}] {e}"
ErrorLines(id, errors) ==
    [k \in DOMAIN errors |-> <<"[", id, "]">> \o errors[k]]

\* the loop body of verify_all that keeps the flag of the last record only
verify_all_body_lastwins(acc, e, result) ==
    IF ~result.is_valid
    THEN [all_valid |-> FALSE,
          all_errors |-> acc.all_errors \o ErrorLines(e.evidence_id, result.errors)]
    ELSE [acc EXCEPT !.all_valid = TRUE]

\* the loop body of verify_all that collects the lines of every record,
\* the notes of the passing ones included
verify_all_body_allnotes(acc, e, result) ==
    [all_valid |-> acc.all_valid /\ result.is_valid,
     all_errors |-> acc.all_errors \o ErrorLines(e.evidence_id, result.errors)]

\* the loop body of verify_all that puts the lines of the record that finished
\* last in front of the lines collected so far
verify_all_body_prepend(acc, e, result) ==
    IF ~result.is_valid
    THEN [all_valid |-> FALSE,
          all_errors |-> ErrorLines(e.evidence_id, result.errors) \o acc.all_errors]
    ELSE acc

\* ConsistencyVerifier.verify_all, the body of its for loop: the locals
\* all_valid and all_errors after record e verified as result
verify_all_body(acc, e, result) ==
    IF ~result.is_valid
    THEN [all_valid |-> FALSE,
          all_errors |-> acc.all_errors \o ErrorLines(e.evidence_id, result.errors)]
    ELSE acc

\* ------------------------------------------------ inputs of the operations
\* a dumped record with its discriminator removed / set outside the enumeration
Corrupt(d, c) ==
    CASE c = "drop" ->
           [f \in DOMAIN d \ {"event_type", "observation_type"} |-> d[f]]
      [] c = "bogus" ->
           [f \in DOMAIN d |->
              IF f \in {"event_type", "observation_type"} THEN "bogus" ELSE d[f]]
      [] OTHER -> d

CorruptAt(doc, k, c) ==
    [i \in DOMAIN doc |-> IF i = k THEN Corrupt(doc[i], c) ELSE doc[i]]

\* filter() with no keyword argument
NoCriteria == FilterArgs(None, None, None, None, None, None, None)

\* a record built without validation (BaseModel.model_construct) that was
\* given no observed_when: the attribute does not exist
Unvalidated(e) == [f \in DOMAIN e \ {"observed_when"} |-> e[f]]

\* the records filter is tried on: an Event at time 2, an Observation whose
\* original_when 1 and observed_when 3 lie on either side of it, one with
\* observed_when only, and one with no timestamp at all
FilterPool ==
    { PushEvent("push-1", 2, "pushed 1 commit", Repo,
                VerificationInfo(GHARCHIVE, None, Some(Table)), "refs/heads/master"),
      CommitObservation("commit-1", Some(1), 3, Some(Repo),
                        VerificationInfo(GITHUB, Some(Url), None),
                        FALSE, Sha, "fix", "alice", TRUE),
      IOC("ioc-1", None, 3, None, VerificationInfo(SECURITY_VENDOR, Some(Url), None),
          TRUE, "evil.example"),
      Unvalidated(IOC("ioc-raw", None, 3, None,
                      VerificationInfo(SECURITY_VENDOR, Some(Url), None),
                      FALSE, "evil.example")) }

\* the argument combinations filter is called with; "bogus" is a source
\* string that names no member of EvidenceSource
Criteria ==
    { FilterArgs(et, ot, src, repo, after, before, pred) :
        et \in {None, Some("push")}, ot \in {None, Some("commit")},
        src \in {None, Some(GITHUB), Some("bogus")},
        repo \in {None, Some(Repo.full_name)},
        after \in {None, Some(2)}, before \in {None, Some(2)},
        pred \in {None, Some("not_deleted")} }

NoOp == [op |-> "new", recs |-> <<>>, id |-> "", k |-> 0, c |-> "", ret |-> <<>>,
         built |-> TRUE, crit |-> NoCriteria]

VerifyIdle ==
    /\ vpc = "idle" /\ vi = 1 /\ all_valid = TRUE /\ all_errors = <<>>
    /\ results = <<>> /\ answers = <<>> /\ prev = None

NoArg == [recs |-> <<>>, id |-> ""]

ConcIdle == wpc = "idle" /\ warg = NoArg /\ seen = [list |-> {}, index |-> {}]

\* ----------------------------------------- the store, one call per action
\* store = EvidenceStore(seq), EvidenceStore() being EvidenceStore(<<>>)
Init ==
    /\ \E seq \in SeqsUpTo(StorePool, MaxInit) :
          /\ evidence = StoreNew(seq).evidence
          /\ by_id = StoreNew(seq).by_id
          /\ last = [NoOp EXCEPT !.recs = seq]
    /\ VerifyIdle /\ ConcIdle

\* store.add(r); last.k is the number of entries that had r's id before
Add ==
    \E r \in StorePool :
        /\ SetStore(add(Self, r))
        /\ last' = [NoOp EXCEPT !.op = "add", !.recs = <<r>>, !.id = r.evidence_id,
                                !.k = Len(evidence) - Len(Without(evidence, r.evidence_id))]
        /\ UNCHANGED <<verifyVars, concVars>>

\* store.add_all(list)
AddAll ==
    \E list \in Batches :
        /\ SetStore(add_all(Self, list))
        /\ last' = [NoOp EXCEPT !.op = "add_all", !.recs = list]
        /\ UNCHANGED <<verifyVars, concVars>>

\* store.remove(id)
Remove ==
    \E id \in StoreIds :
        /\ SetStore(remove(Self, id)[1])
        /\ last' = [NoOp EXCEPT !.op = "remove", !.id = id,
                                !.ret = <<remove(Self, id)[2]>>]
        /\ UNCHANGED <<verifyVars, concVars>>

\* store.clear()
Clear ==
    /\ SetStore(clear(Self))
    /\ last' = [NoOp EXCEPT !.op = "clear"]
    /\ UNCHANGED <<verifyVars, concVars>>

\* store.merge(other), other being another store EvidenceStore(seq), which
\* merge only reads (list(other)), or the receiving store itself; last holds
\* the records of other before (recs) and after (ret) the call, and in k
\* whether the call before this one merged the same other store
Merge ==
    \/ \E seq \in Batches :
          /\ SetStore(merge(Self, StoreNew(seq)))
          /\ last' = [NoOp EXCEPT !.op = "merge", !.c = "other", !.recs = seq,
                                  !.ret = seq,
                                  !.k = IF /\ last.op = "merge" /\ last.c = "other"
                                           /\ last.recs = seq
                                        THEN 1 ELSE 0]
          /\ UNCHANGED <<verifyVars, concVars>>
    \/ /\ SetStore(merge(Self, Self))
       /\ last' = [NoOp EXCEPT !.op = "merge", !.c = "self", !.recs = evidence,
                               !.ret = merge(Self, Self).evidence]
       /\ UNCHANGED <<verifyVars, concVars>>

\* store.summary()
Summary ==
    /\ last' = [NoOp EXCEPT !.op = "summary", !.recs = evidence,
                            !.ret = <<summary(Self)>>]
    /\ UNCHANGED <<evidence, by_id, verifyVars, concVars>>

\* store = EvidenceStore.from_json(doc), doc being the dump of the store with
\* the discriminator of item k damaged; when the call raises there is no new
\* store and the variable keeps the old one
FromJson ==
    \E k \in DOMAIN evidence, c \in {"drop", "bogus"} :
        LET res == from_json(CorruptAt(to_json(Self), k, c))
        IN /\ IF Raised(res) THEN UNCHANGED <<evidence, by_id>>
                             ELSE SetStore(res.val[1])
           /\ last' = [NoOp EXCEPT !.op = "from_json", !.recs = evidence,
                                   !.k = k, !.c = c,
                                   !.ret = IF Raised(res) THEN res.err[1] ELSE <<>>,
                                   !.built = (res.val # None)]
           /\ UNCHANGED <<verifyVars, concVars>>

\* store = EvidenceStore.from_json(store.to_json())  (what save then load does)
Reload ==
    LET res == from_json(to_json(Self))
    IN /\ IF Raised(res) THEN UNCHANGED <<evidence, by_id>>
                         ELSE SetStore(res.val[1])
       /\ last' = [NoOp EXCEPT !.op = "reload", !.recs = evidence,
                               !.ret = IF Raised(res) THEN res.err[1] ELSE <<>>,
                               !.built = (res.val # None)]
       /\ UNCHANGED <<verifyVars, concVars>>

Next == Add \/ AddAll \/ Remove \/ Clear \/ Merge \/ FromJson \/ Reload \/ Summary

Spec == Init /\ [][Next]_vars


\* ------------------------------------------------------------- filtering
\* store = EvidenceStore(seq)
InitFilter ==
    /\ \E seq \in SeqsUpTo(FilterPool, MaxFilter) :
          /\ evidence = StoreNew(seq).evidence
          /\ by_id = StoreNew(seq).by_id
          /\ last = [NoOp EXCEPT !.recs = seq]
    /\ VerifyIdle /\ ConcIdle

\* store.filter(**c): the list returned, or the exception raised
Filter ==
    \E c \in Criteria :
        LET res == filter(Self, c)
        IN /\ last' = [NoOp EXCEPT !.op = "filter", !.crit = c,
                                   !.ret = IF res.err # None THEN res.err[1]
                                           ELSE res.val[1],
                                   !.built = (res.err = None)]
           /\ UNCHANGED <<evidence, by_id, verifyVars, concVars>>

NextFilter == Filter

SpecFilter == InitFilter /\ [][NextFilter]_vars


\* -------------------------------------- serialization of every variant
\* store = EvidenceStore(seq) over the samples of all variants, then saved and
\* loaded back, intact or damaged
InitJson ==
    /\ \E seq \in SeqsUpTo(VariantSamples, MaxDoc) :
          /\ evidence = StoreNew(seq).evidence
          /\ by_id = StoreNew(seq).by_id
          /\ last = [NoOp EXCEPT !.recs = seq]
    /\ VerifyIdle /\ ConcIdle

NextJson == Reload \/ FromJson

SpecJson == InitJson /\ [][NextJson]_vars

\* ------------------------------------------------ construction of records
\* the keyword arguments / JSON objects records are built from: a commit
\* Observation and a push Event, each with its id and with the empty id; the
\* commit with a full hash, one a character short, one a character long, the
\* empty string, and a 40-character string with a character that is no
\* hexadecimal digit
ConstructInputs ==
    LET commit == model_dump(CommitObservation("ob-commit", Some(1), 2, Some(Repo),
                                 VerificationInfo(GITHUB, Some(Url), None),
                                 FALSE, Sha, "fix", "alice", TRUE))
        push == model_dump(PushEvent("ev-push", 1, "pushed", Repo,
                                 VerificationInfo(GHARCHIVE, None, Some(Table)),
                                 "refs/heads/master"))
    IN { [commit EXCEPT !.evidence_id = i, !.sha = h] :
            i \in {"", "ob-commit"},
            h \in { Sha,
                    "deadbeefdeadbeefdeadbeefdeadbeefdeadbee",
                    "deadbeefdeadbeefdeadbeefdeadbeefdeadbeef0",
                    "",
                    "zeadbeefdeadbeefdeadbeefdeadbeefdeadbeef" } }
       \cup { [push EXCEPT !.evidence_id = i] : i \in {"", "ev-push"} }

\* store = EvidenceStore()
InitConstruct ==
    /\ evidence = <<>> /\ by_id = <<>>
    /\ last = NoOp
    /\ VerifyIdle /\ ConcIdle

\* r = CommitObservation(**d) / PushEvent(**d); store.add(r)
Construct ==
    \E d \in ConstructInputs :
        LET r == IF "event_type" \in DOMAIN d THEN event_adapter(d)
                 ELSE observation_adapter(d)
        IN /\ Len(evidence) < MaxConstruct
           /\ IF r = None THEN UNCHANGED <<evidence, by_id>>
                          ELSE SetStore(add(Self, r[1]))
           /\ last' = [NoOp EXCEPT !.op = "construct", !.recs = <<d>>,
                                   !.id = d.evidence_id,
                                   !.c = GetAttr(d, "sha", ""),
                                   !.built = (r # None)]
           /\ UNCHANGED <<verifyVars, concVars>>

\* store = EvidenceStore.from_json(doc), doc the store's document with one
\* more object
Deserialize ==
    \E d \in ConstructInputs :
        LET res == from_json(Append(to_json(Self), d))
        IN /\ Len(evidence) < MaxConstruct
           /\ IF Raised(res) THEN UNCHANGED <<evidence, by_id>>
                             ELSE SetStore(res.val[1])
           /\ last' = [NoOp EXCEPT !.op = "deserialize", !.recs = <<d>>,
                                   !.id = d.evidence_id,
                                   !.c = GetAttr(d, "sha", ""),
                                   !.ret = IF Raised(res) THEN res.err[1] ELSE <<>>,
                                   !.built = (res.val # None)]
           /\ UNCHANGED <<verifyVars, concVars>>

NextConstruct == Construct \/ Deserialize

SpecConstruct == InitConstruct /\ [][NextConstruct]_vars


\* ------------------------------------------------------- verification
GithubVer == VerificationInfo(GITHUB, Some(Url), None)

\* the six kinds the primary API is asked for by key, each with its
\* repository and its lookup key, still present or marked deleted
KeyedKinds == {"commit", "issue", "file", "branch", "tag", "release"}

KeyedId(t, deleted) ==
    IF deleted
    THEN [commit |-> "commit-del", issue |-> "issue-del", file |-> "file-del",
          branch |-> "branch-del", tag |-> "tag-del", release |-> "release-del"][t]
    ELSE [commit |-> "commit-1", issue |-> "issue-1", file |-> "file-1",
          branch |-> "branch-1", tag |-> "tag-1", release |-> "release-1"][t]

KeyedObservation(t, deleted) ==
    CASE t = "commit" ->
           CommitObservation(KeyedId(t, deleted), Some(1), 2, Some(Repo), GithubVer,
                             deleted, Sha, "fix", "alice", TRUE)
      [] t = "issue" ->
           IssueObservation(KeyedId(t, deleted), None, 2, Some(Repo), GithubVer,
                            deleted, 7710, TRUE, Some("Revert"), Some("merged"))
      [] t = "file" ->
           FileObservation(KeyedId(t, deleted), None, 2, Some(Repo), GithubVer,
                           deleted, "scripts/extensionNode.bk", None, Some("abc123"))
      [] t = "branch" ->
           BranchObservation(KeyedId(t, deleted), None, 2, Some(Repo), GithubVer,
                             deleted, "master", Some(Sha))
      [] t = "tag" ->
           TagObservation(KeyedId(t, deleted), None, 2, Some(Repo), GithubVer,
                          deleted, "v1.0", Some(Sha))
      [] t = "release" ->
           ReleaseObservation(KeyedId(t, deleted), None, 2, Some(Repo), GithubVer,
                              deleted, "v1.0")

\* the records verification is run on: every row of the dispatch table
VerifyPool ==
    { KeyedObservation(t, d) : t \in KeyedKinds, d \in BOOLEAN }
    \cup
    { CommitObservation("commit-norepo", None, 2, None, GithubVer, TRUE,
                        Sha, "fix", "alice", FALSE),
      IssueObservation("issue-nonumber", None, 2, Some(Repo), GithubVer, TRUE,
                       0, FALSE, None, None),
      IssueObservation("issue-closed", None, 2, Some(Repo), GithubVer, FALSE,
                       7711, TRUE, None, Some("closed")),
      IssueObservation("issue-bare", None, 2, Some(Repo), GithubVer, FALSE,
                       12, FALSE, None, None),
      ForkObservation("fork-1", None, 2, Some(Repo), GithubVer, FALSE, "evil/fork"),
      ForkObservation("fork-del", None, 2, Some(Repo), GithubVer, TRUE, "evil/fork"),
      ArticleObservation("article-1", None, 2, None,
                         VerificationInfo(GITHUB, None, None), FALSE, Url, "Report"),
      SnapshotObservation("snapshot-1", None, 2, None,
                          VerificationInfo(WAYBACK, Some(Url), None), FALSE, Url),
      SnapshotObservation("snapshot-del", None, 2, None,
                          VerificationInfo(WAYBACK, Some(Url), None), TRUE, Url),
      IOC("ioc-1", None, 3, None, VerificationInfo(SECURITY_VENDOR, Some(Url), None),
          FALSE, "evil.example"),
      IOC("ioc-del", None, 3, None, VerificationInfo(SECURITY_VENDOR, Some(Url), None),
          TRUE, "evil.example"),
      IOC("ioc-nourl", None, 3, None, VerificationInfo(SECURITY_VENDOR, None, None),
          FALSE, "evil.example"),
      CommitObservation("commit-arch", None, 2, Some(Repo),
                        VerificationInfo(GHARCHIVE, None, Some(Table)), FALSE,
                        Sha, "fix", "alice", FALSE),
      CommitObservation("commit-notable", None, 2, Some(Repo),
                        VerificationInfo(GHARCHIVE, None, None), FALSE,
                        Sha, "fix", "alice", FALSE),
      CommitObservation("commit-git", None, 2, Some(Repo),
                        VerificationInfo(GIT, None, None), FALSE,
                        Sha, "fix", "alice", TRUE),
      PushEvent("push-1", 1, "pushed", Repo,
                VerificationInfo(GHARCHIVE, None, Some(Table)), "refs/heads/master"),
      PushEvent("push-notable", 1, "pushed", Repo,
                VerificationInfo(GHARCHIVE, None, None), "refs/heads/master"),
      Event("watch-git", "watch", 2, "starred", Repo, VerificationInfo(GIT, None, None)),
      Event("issue-api", "issue", 2, "opened", Repo, GithubVer),
      Event("fork-web", "fork", 3, "forked", Repo,
            VerificationInfo(WAYBACK, Some(Url), None)) }

\* the records whole passes are run on: one that can fail with several lines,
\* one marked deleted, one checked by URL, one that passes with a skip note,
\* one that passes with the local-git note, one with an unhandled source
AggregatePool ==
    { r \in VerifyPool :
        r.evidence_id \in {"commit-1", "commit-del", "ioc-1", "push-1",
                           "commit-git", "issue-api"} }

\* store = EvidenceStore(seq); store.verify_all() has not been called yet
InitVerify ==
    /\ \E seq \in SeqsUpTo(AggregatePool, MaxVerify) :
          /\ evidence = StoreNew(seq).evidence
          /\ by_id = StoreNew(seq).by_id
          /\ last = [NoOp EXCEPT !.recs = seq]
    /\ VerifyIdle /\ ConcIdle

\* store.verify_all() is entered: all_errors = [], all_valid = True
VerifyStart ==
    /\ vpc = "idle"
    /\ vpc' = "running" /\ vi' = 1 /\ all_valid' = TRUE /\ all_errors' = <<>>
    /\ results' = <<>> /\ answers' = <<>>
    /\ UNCHANGED <<storeVars, concVars, prev>>

\* what the sources can answer for the record the loop is at: anything in a
\* first pass, what they answered before in a pass repeated against unchanged
\* sources
PassAnswers ==
    IF prev = None THEN Answers(evidence[vi]) ELSE {prev[1].answers[vi]}

\* an iteration that records its verdict on the record itself: an
\* Observation found invalid is marked is_deleted in place
VerifyStepMarking ==
    /\ vpc = "running" /\ vi <= Len(evidence)
    /\ \E ans \in PassAnswers :
          LET result == verify(evidence[vi], ans)
              acc == verify_all_body([all_valid |-> all_valid, all_errors |-> all_errors],
                                     evidence[vi], result)
              marked == IF IsObservation(evidence[vi]) /\ ~IsExc(result)
                           /\ ~result.is_valid
                        THEN [evidence[vi] EXCEPT !.is_deleted = TRUE]
                        ELSE evidence[vi]
          IN /\ evidence' = [evidence EXCEPT ![vi] = marked]
             /\ by_id' = [by_id EXCEPT ![marked.evidence_id] = marked]
             /\ IF IsExc(result)
                THEN /\ vpc' = "raised"
                     /\ UNCHANGED <<vi, all_valid, all_errors, results, answers>>
                ELSE /\ vpc' = "running" /\ vi' = vi + 1
                     /\ all_valid' = acc.all_valid /\ all_errors' = acc.all_errors
                     /\ results' = Append(results, result)
                     /\ answers' = Append(answers, ans)
    /\ UNCHANGED <<last, concVars, prev>>

\* one iteration of the for loop; an exception leaving verify() ends the call
VerifyStep ==
    /\ vpc = "running" /\ vi <= Len(evidence)
    /\ \E ans \in PassAnswers :
          LET result == verify(evidence[vi], ans)
              acc == verify_all_body([all_valid |-> all_valid, all_errors |-> all_errors],
                                     evidence[vi], result)
          IN IF IsExc(result)
             THEN /\ vpc' = "raised"
                  /\ UNCHANGED <<vi, all_valid, all_errors, results, answers>>
             ELSE /\ vpc' = "running" /\ vi' = vi + 1
                  /\ all_valid' = acc.all_valid /\ all_errors' = acc.all_errors
                  /\ results' = Append(results, result)
                  /\ answers' = Append(answers, ans)
    /\ UNCHANGED <<storeVars, concVars, prev>>

\* return VerificationResult(is_valid=all_valid, errors=all_errors)
VerifyReturn ==
    /\ vpc = "running" /\ vi > Len(evidence)
    /\ vpc' = "done"
    /\ last' = [NoOp EXCEPT !.op = "verify_all", !.recs = evidence,
                            !.ret = all_errors, !.built = all_valid]
    /\ UNCHANGED <<evidence, by_id, vi, all_valid, all_errors, results, answers,
                   prev, concVars>>

\* store.verify_all() is called a second time, the sources answering as they
\* did in the first pass
VerifyAgain ==
    /\ vpc = "done" /\ prev = None
    /\ prev' = Some([answers |-> answers, is_valid |-> all_valid,
                     errors |-> all_errors])
    /\ vpc' = "running" /\ vi' = 1 /\ all_valid' = TRUE /\ all_errors' = <<>>
    /\ results' = <<>> /\ answers' = <<>>
    /\ UNCHANGED <<storeVars, concVars>>

\* store = EvidenceStore([r]) for each record r of the dispatch table
InitStrategy ==
    /\ \E r \in VerifyPool :
          /\ evidence = StoreNew(<<r>>).evidence
          /\ by_id = StoreNew(<<r>>).by_id
          /\ last = [NoOp EXCEPT !.recs = <<r>>]
    /\ VerifyIdle /\ ConcIdle

NextVerify == VerifyStart \/ VerifyStep \/ VerifyReturn

SpecVerify == InitVerify /\ [][NextVerify]_vars

\* verify_all over a store holding one record, for every row of the table
SpecStrategy == InitStrategy /\ [][NextVerify]_vars

\* the loop is a plain for loop over a list: every iteration that can run does
FairVerify == SpecVerify /\ WF_vars(NextVerify)

\* two passes over one store against sources that answer the same both times
NextRepeat == NextVerify \/ VerifyAgain

SpecRepeat == InitVerify /\ [][NextRepeat]_vars

\* ------------------------------------- one writer thread, one reader thread
\* The store has no lock.  The writer runs add / add_all / merge, remove or
\* clear one statement of store.py at a time; the reader may run between any
\* two of them.
InitConc ==
    /\ evidence = <<>> /\ by_id = <<>> /\ last = NoOp
    /\ VerifyIdle /\ ConcIdle

\* the writer calls add(r), add_all(list) or merge(EvidenceStore(list))
CallAdd ==
    /\ wpc = "idle"
    /\ \E list \in Batches \ {<<>>} :
          warg' = [recs |-> list, id |-> list[1].evidence_id]
    /\ wpc' = "add37"
    /\ UNCHANGED <<storeVars, verifyVars, seen>>

\* store.py:37-38  if id in self._by_id: self._evidence = [... != id]
Add37 ==
    /\ wpc = "add37"
    /\ evidence' = IF warg.id \in DOMAIN by_id THEN Without(evidence, warg.id)
                   ELSE evidence
    /\ wpc' = "add39"
    /\ UNCHANGED <<by_id, last, verifyVars, warg, seen>>

\* store.py:39  self._evidence.append(evidence)
Add39 ==
    /\ wpc = "add39"
    /\ evidence' = Append(evidence, warg.recs[1])
    /\ wpc' = "add40"
    /\ UNCHANGED <<by_id, last, verifyVars, warg, seen>>

\* store.py:40  self._by_id[id] = evidence; then the next record of the batch
Add40 ==
    /\ wpc = "add40"
    /\ by_id' = (warg.id :> warg.recs[1]) @@ by_id
    /\ IF Len(warg.recs) > 1
       THEN /\ warg' = [recs |-> Tail(warg.recs), id |-> warg.recs[2].evidence_id]
            /\ wpc' = "add37"
       ELSE /\ warg' = NoArg
            /\ wpc' = "idle"
    /\ UNCHANGED <<evidence, last, verifyVars, seen>>

\* the writer calls remove(id)
CallRemove ==
    /\ wpc = "idle"
    /\ \E id \in StoreIds : warg' = [recs |-> <<>>, id |-> id]
    /\ wpc' = "remove53"
    /\ UNCHANGED <<storeVars, verifyVars, seen>>

\* store.py:53-54  if id in self._by_id: del self._by_id[id]
Remove53 ==
    /\ wpc = "remove53"
    /\ IF warg.id \in DOMAIN by_id
       THEN /\ by_id' = [i \in DOMAIN by_id \ {warg.id} |-> by_id[i]]
            /\ wpc' = "remove55"
            /\ UNCHANGED warg
       ELSE /\ wpc' = "idle" /\ warg' = NoArg
            /\ UNCHANGED by_id
    /\ UNCHANGED <<evidence, last, verifyVars, seen>>

\* store.py:55  self._evidence = [... != id]
Remove55 ==
    /\ wpc = "remove55"
    /\ evidence' = Without(evidence, warg.id)
    /\ wpc' = "idle" /\ warg' = NoArg
    /\ UNCHANGED <<by_id, last, verifyVars, seen>>

\* the writer calls clear();  store.py:61  self._evidence.clear()
Clear61 ==
    /\ wpc = "idle"
    /\ evidence' = <<>>
    /\ wpc' = "clear62"
    /\ UNCHANGED <<by_id, last, verifyVars, warg, seen>>

\* store.py:62  self._by_id.clear()
Clear62 ==
    /\ wpc = "clear62"
    /\ by_id' = <<>>
    /\ wpc' = "idle"
    /\ UNCHANGED <<evidence, last, verifyVars, warg, seen>>

\* the reader iterates the store (store.py:67-68, 119) and tests membership
\* (store.py:49, 71)
Read ==
    /\ seen' = [list |-> Ids(evidence), index |-> DOMAIN by_id]
    /\ UNCHANGED <<storeVars, verifyVars, wpc, warg>>

NextConc ==
    \/ CallAdd \/ Add37 \/ Add39 \/ Add40
    \/ CallRemove \/ Remove53 \/ Remove55
    \/ Clear61 \/ Clear62
    \/ Read

SpecConc == InitConc /\ [][NextConc]_vars

\* ------------------------------------------------------ clients/gharchive.py
\* text[a:b] of a str
Slice(text, a, b) ==
    LET hi == IF b < Len(text) THEN b ELSE Len(text)
    IN IF a < hi THEN SubSeq(text, a + 1, hi) ELSE ""

\* str.isdigit(): true for a non-empty string of digits only
isdigit(text) ==
    /\ Len(text) > 0
    /\ \A i \in 1..Len(text) : SubSeq(text, i, i) \in {"0", "1", "2", "3", "4", "5", "6", "7", "8", "9"}

\* str.strip(): without the leading and trailing blanks
RECURSIVE strip(_)
strip(text) ==
    IF Len(text) = 0 THEN text
    ELSE IF SubSeq(text, 1, 1) = " " THEN strip(Slice(text, 1, Len(text)))
    ELSE IF SubSeq(text, Len(text), Len(text)) = " "
         THEN strip(Slice(text, 0, Len(text) - 1))
         ELSE text

\* the number a string of digits denotes
RECURSIVE Value(_)
Value(text) ==
    IF Len(text) = 0 THEN 0
    ELSE Value(Slice(text, 0, Len(text) - 1)) * 10
         + (CHOOSE n \in 0..9 : ToString(n) = SubSeq(text, Len(text), Len(text)))

\* int(text) in base 10: blanks around the literal are dropped, one sign is
\* allowed, then digits; anything else raises ValueError
int(text) ==
    LET t == strip(text)
        signed == Len(t) > 0 /\ SubSeq(t, 1, 1) \in {"+", "-"}
        body == IF signed THEN Slice(t, 1, Len(t)) ELSE t
    IN IF ~isdigit(body)
       THEN Raise(<<"invalid literal for int() with base 10:", text>>)
       ELSE IF signed /\ SubSeq(t, 1, 1) = "-" THEN Ok(0 - Value(body))
       ELSE Ok(Value(body))

\* GHArchiveClient.query_events(from_date=...): the error raised, or the
\* table day, hour and minute of the query that is run.  creds tells whether
\* _get_client() succeeds
query_events(creds, from_date) ==
    IF ~creds THEN Raise(<<"DefaultCredentialsError">>)
    ELSE LET day == Slice(from_date, 0, 8)
             hour == int(Slice(from_date, 8, 10))
             minute == int(Slice(from_date, 10, 12))
         IN IF ~isdigit(day) \/ Len(day) # 8
            THEN Raise(<<"Invalid date format:", from_date>>)
            ELSE IF Raised(hour) THEN hour
            ELSE IF Raised(minute) THEN minute
            ELSE Ok([table |-> "githubarchive.day." \o day,
                     hour |-> hour.val[1], minute |-> minute.val[1]])

\* the time windows query_events is called with: a day of eight digits, of
\* seven, or with a letter; an hour and a minute of two digits, of one, with
\* a blank, a sign or a letter, or missing; and what may follow the minute
TimeWindows ==
    { day \o hh \o mm \o rest :
        day \in {"20250713", "2025071", "2025x713"},
        hh \in {"20", "2", " 2", "x2", ""},
        mm \in {"30", "3", "-3", ""},
        rest \in {"", "00", "Z"} }

\* client = GHArchiveClient(); no query has been made
InitQuery ==
    /\ evidence = <<>> /\ by_id = <<>>
    /\ last = NoOp
    /\ VerifyIdle /\ ConcIdle

\* client.query_events(from_date=w)
QueryEvents ==
    \E w \in TimeWindows, creds \in BOOLEAN :
        LET res == query_events(creds, w)
        IN /\ last' = [NoOp EXCEPT !.op = "query_events", !.id = w,
                                   !.c = IF creds THEN "creds" ELSE "",
                                   !.ret = IF Raised(res) THEN res.err[1]
                                           ELSE <<res.val[1]>>,
                                   !.built = ~Raised(res)]
           /\ UNCHANGED <<evidence, by_id, verifyVars, concVars>>

SpecQuery == InitQuery /\ [][QueryEvents]_vars

\* ================================================================ claims

\* C1: in every reachable store no two records of the list have the same
\* evidence_id.
UniqueIds ==
    \A i, j \in DOMAIN evidence :
        i # j => evidence[i].evidence_id # evidence[j].evidence_id

\* C2: add(r) for an id the store holds keeps the size, makes get(id) return
\* r itself, and leaves exactly one entry for the id.
AddReplaces ==
    [][(last'.op = "add" /\ last'.id \in DOMAIN by_id) =>
          /\ Len(evidence') = Len(evidence)
          /\ get(Store(evidence', by_id'), last'.id) = Some(last'.recs[1])
          /\ Cardinality({k \in DOMAIN evidence' :
                            evidence'[k].evidence_id = last'.id}) = 1]_vars

\* C4: from_json(to_json(S)) holds as many records as S, in the same order,
\* each with the id, the discriminator and the field values of the record at
\* its position in S.
RoundTrip ==
    last.op = "reload" =>
        /\ last.built /\ last.ret = <<>>
        /\ Len(evidence) = Len(last.recs)
        /\ \A k \in DOMAIN evidence :
              /\ evidence[k].evidence_id = last.recs[k].evidence_id
              /\ IsEvent(evidence[k]) = IsEvent(last.recs[k])
              /\ IsEvent(evidence[k]) =>
                    evidence[k].event_type = last.recs[k].event_type
              /\ IsObservation(evidence[k]) = IsObservation(last.recs[k])
              /\ IsObservation(evidence[k]) =>
                    evidence[k].observation_type = last.recs[k].observation_type
              /\ evidence[k] = last.recs[k]

RoundTripWitness ==
    /\ last.op = "reload" /\ last.built
    /\ Len(evidence) >= 2
    /\ IsEvent(evidence[1]) /\ IsObservation(evidence[2])

\* C5: a serialized record with neither discriminator field raises, one whose
\* discriminator is outside the enumeration raises an error naming that
\* discriminator, and in both cases from_json raises and builds no store.
ClassifyOrFail ==
    last.op = "from_json" =>
        /\ ~last.built
        /\ evidence = last.recs
        /\ last.c = "drop" =>
              last.ret = <<"Data must contain 'event_type' or 'observation_type' field">>
        /\ (last.c = "bogus" /\ IsEvent(last.recs[last.k])) =>
              last.ret = <<"Unknown event_type:", "bogus">>
        /\ (last.c = "bogus" /\ IsObservation(last.recs[last.k])) =>
              last.ret = <<"Unknown observation_type:", "bogus">>

ClassifyOrFailWitness ==
    /\ last.op = "from_json" /\ ~last.built
    /\ Len(last.recs) >= 2 /\ last.k = 2
    /\ last.c = "drop"


\* C3: while a writer thread runs add, remove, clear or merge, a reader never
\* sees a partially updated store: the ids it finds in the record list and
\* the ids it finds in the index are the same set.
ReaderSeesWholeUpdates == seen.list = seen.index

\* a verification source the verifier has a strategy for, by root kind
Handled(e) ==
    IF IsEvent(e) THEN e.verification.source \in {GHARCHIVE, GIT}
    ELSE e.verification.source \in {GITHUB, GHARCHIVE, WAYBACK, SECURITY_VENDOR, GIT}

\* an Observation re-fetched from the primary API by key, carrying its
\* repository and its key
Keyed(e) ==
    /\ IsObservation(e) /\ e.verification.source = GITHUB
    /\ e.observation_type \in KeyedKinds
    /\ e.repository # None
    /\ e.observation_type = "commit" => e.sha # ""
    /\ e.observation_type = "issue" => e.issue_number # 0
    /\ e.observation_type = "file" => e.file_path # ""
    /\ e.observation_type = "branch" => e.branch_name # ""
    /\ e.observation_type \in {"tag", "release"} => e.tag_name # ""

Mentions(line, token) == \E k \in DOMAIN line : line[k] = token

\* C6: for every Observation with is_deleted=true, whichever leaf strategy is
\* selected, a fetch failure during verification gives a valid result.
DeletedToleratesFetchFailure ==
    \A k \in DOMAIN results :
        (/\ IsObservation(evidence[k]) /\ evidence[k].is_deleted
         /\ results[k].fetch_exc # None)
        => results[k].is_valid

\* C7: a keyed primary-API Observation whose re-fetch raises is valid with no
\* error when is_deleted, invalid with exactly one error holding the cause
\* when not; verify_all over a store of one such deleted record is valid.
KeyedRefetchFailure ==
    /\ \A k \in DOMAIN results :
          (Keyed(evidence[k]) /\ results[k].fetch_exc # None) =>
             IF evidence[k].is_deleted
             THEN results[k].is_valid /\ results[k].errors = <<>>
             ELSE /\ ~results[k].is_valid
                  /\ Len(results[k].errors) = 1
                  /\ Mentions(results[k].errors[1], results[k].fetch_exc[1])
    /\ (/\ vpc = "done" /\ Len(evidence) = 1 /\ Keyed(evidence[1])
        /\ evidence[1].is_deleted /\ results[1].fetch_exc # None)
       => (all_valid /\ last.built)

KeyedRefetchFailureWitness ==
    /\ vpc = "done" /\ Len(evidence) = 1
    /\ Keyed(evidence[1]) /\ evidence[1].is_deleted
    /\ results[1].fetch_exc # None
    /\ all_valid

\* C8: a record whose verification source has no strategy for its root kind
\* verifies as invalid with an "unknown verification source" error, and never
\* as valid.
UnknownSourceRejected ==
    /\ \A k \in DOMAIN results :
          ~Handled(evidence[k]) =>
             /\ ~results[k].is_valid
             /\ \E j \in DOMAIN results[k].errors :
                   /\ results[k].errors[j][1] \in
                         {"Unknown verification source for event:",
                          "Unknown verification source:"}
                   /\ Mentions(results[k].errors[j], evidence[k].verification.source)
    /\ (vpc = "done" /\ \E k \in DOMAIN evidence : ~Handled(evidence[k]))
       => ~all_valid

UnknownSourceRejectedWitness ==
    /\ vpc = "done" /\ Len(evidence) = 1
    /\ ~Handled(evidence[1])
    /\ ~all_valid /\ all_errors # <<>>


\* C9: verify_all returns valid exactly when every record verified as valid;
\* every record is verified exactly once, whatever happened to the earlier
\* ones, no exception ends the pass, and the pass ends after the last record.
VerifyAllComplete ==
    /\ [](vpc # "raised")
    /\ [](Len(results) = vi - 1 /\ vi <= Len(evidence) + 1)
    /\ [](vpc = "done" =>
             /\ Len(results) = Len(evidence)
             /\ all_valid = (\A k \in DOMAIN results : results[k].is_valid)
             /\ last.built = all_valid)
    /\ <>(vpc = "done")

VerifyAllCompleteWitness ==
    /\ vpc = "done" /\ Len(evidence) >= 2
    /\ ~results[1].is_valid /\ results[1].fetch_exc # None
    /\ results[2].is_valid
    /\ ~all_valid

\* the lines records 1..k of the pass must contribute: those of the failing
\* records, each behind the id of its record
RECURSIVE ExpectedLines(_)
ExpectedLines(k) ==
    IF k = 0 THEN <<>>
    ELSE ExpectedLines(k - 1) \o
         (IF results[k].is_valid THEN <<>>
          ELSE [j \in DOMAIN results[k].errors |->
                  <<"[", evidence[k].evidence_id, "]">> \o results[k].errors[j]])

\* C10: the error list of verify_all is empty exactly when the result is
\* valid; it holds the lines of the failing records, each prefixed with the
\* id of its record, at least one per failing record and none for a passing
\* record, skip notes included.
ErrorListExact ==
    vpc = "done" =>
        /\ (all_errors = <<>>) = all_valid
        /\ all_errors = ExpectedLines(Len(results))
        /\ \A k \in DOMAIN results :
              ~results[k].is_valid => Len(results[k].errors) >= 1
        /\ last.ret = all_errors

ErrorListExactWitness ==
    /\ vpc = "done" /\ Len(evidence) >= 2
    /\ \E k \in DOMAIN results : ~results[k].is_valid /\ Len(results[k].errors) >= 2
    /\ \E k \in DOMAIN results : results[k].is_valid /\ results[k].errors # <<>>
    /\ Len(all_errors) >= 2

\* the places error lines come from: <<k, j>> is error j of failing record k
LineOrigins ==
    UNION { { <<k, j>> : j \in DOMAIN results[k].errors } :
              k \in { i \in DOMAIN results : ~results[i].is_valid } }

LineAt(o) == <<"[", evidence[o[1]].evidence_id, "]">> \o results[o[1]].errors[o[2]]

\* an earlier record, or the same record and an earlier error of its strategy
OriginBefore(a, b) == a[1] < b[1] \/ (a[1] = b[1] /\ a[2] < b[2])

\* C11: the error lines of verify_all are in the order of the collection, all
\* lines of an earlier record before all lines of a later one and the lines of
\* one record in the order its strategy produced them; a second pass over the
\* same collection with the same source answers returns the same flag and the
\* same error list.
StableErrorOrder ==
    /\ vpc \in {"running", "done"} =>
          /\ Len(all_errors) = Cardinality(LineOrigins)
          /\ \A p, q \in DOMAIN all_errors :
                p < q => \E a, b \in LineOrigins :
                            /\ OriginBefore(a, b)
                            /\ all_errors[p] = LineAt(a)
                            /\ all_errors[q] = LineAt(b)
    /\ (vpc = "done" /\ prev # None) =>
          /\ answers = prev[1].answers
          /\ all_valid = prev[1].is_valid
          /\ all_errors = prev[1].errors

StableErrorOrderWitness ==
    /\ vpc = "done" /\ prev # None /\ Len(evidence) >= 2
    /\ ~results[1].is_valid /\ Len(results[1].errors) >= 2
    /\ ~results[2].is_valid
    /\ evidence[1].evidence_id # evidence[2].evidence_id
    /\ Len(all_errors) >= 3

\* the strategy selected for record e asks a source: a keyed look-up of the
\* primary API, a GET of the verification URL, or an archive query made with
\* credentials
PerformsFetch(e, ans) ==
    \/ Keyed(e)
    \/ /\ IsObservation(e) /\ e.verification.source = GITHUB
       /\ e.observation_type \notin KeyedKinds /\ TruthyStr(e.verification.url)
    \/ /\ IsObservation(e) /\ e.verification.source \in {WAYBACK, SECURITY_VENDOR}
       /\ TruthyStr(e.verification.url)
    \/ /\ IsEvent(e) /\ e.verification.source = GHARCHIVE
       /\ TruthyStr(e.verification.bigquery_table) /\ ans.creds

FetchFailed(k) == PerformsFetch(evidence[k], answers[k]) /\ answers[k].exc # None

MarkedDeleted(e) == IsObservation(e) /\ e.is_deleted

\* C12: a record whose fetch failed passes only if it has is_deleted=true (an
\* archive record without credentials is never fetched, and passes); every
\* other record whose strategy fetches is invalid after a failed fetch, with
\* an error holding the cause; no failed fetch ends the pass.
FetchFailureOutcome ==
    /\ vpc # "raised"
    /\ \A k \in DOMAIN results :
          FetchFailed(k) =>
             /\ results[k].is_valid => MarkedDeleted(evidence[k])
             /\ ~MarkedDeleted(evidence[k]) =>
                   /\ ~results[k].is_valid
                   /\ \E j \in DOMAIN results[k].errors :
                         Mentions(results[k].errors[j], answers[k].exc[1])

FetchFailureOutcomeWitness ==
    /\ vpc = "done" /\ Len(evidence) = 1
    /\ IsEvent(evidence[1]) /\ FetchFailed(1)
    /\ ~results[1].is_valid /\ ~all_valid

\* C13: an Event of the archive-query source is valid, with a note, whenever
\* credentials are unavailable, whatever else its verification descriptor
\* holds; with credentials it is invalid when the query returns no row.
ArchiveSkipWithoutCredentials ==
    \A k \in DOMAIN results :
        (IsEvent(evidence[k]) /\ evidence[k].verification.source = GHARCHIVE) =>
           /\ ~answers[k].creds =>
                 results[k].is_valid /\ results[k].errors # <<>>
           /\ (answers[k].creds /\ answers[k].exc = None /\ ~answers[k].found) =>
                 ~results[k].is_valid

\* the criteria of a and of b supplied together; a and b agree on what both
\* supply
Agree(a, b) == \A f \in DOMAIN a : a[f] = None \/ b[f] = None \/ a[f] = b[f]

Together(a, b) == [f \in DOMAIN a |-> IF a[f] # None THEN a[f] ELSE b[f]]

NamesSource(c) == c.source = None \/ c.source[1] \in EvidenceSource

\* the records of list x that are in list y too, in the order of x
InBoth(x, y) == SelectSeq(x, LAMBDA e : \E k \in DOMAIN y : y[k] = e)

\* C14: for criteria A and B (event type, observation type, source,
\* repository, after, before, predicate), filter with A and B together
\* returns exactly the records that filter(A) and filter(B) both return, in
\* collection order.
FilterConjunction ==
    (last.op = "filter" /\ NamesSource(last.crit)) =>
        /\ last.built
        /\ \A b \in Criteria :
              (NamesSource(b) /\ Agree(last.crit, b)) =>
                 LET alone == filter(Self, b)
                     both == filter(Self, Together(last.crit, b))
                 IN /\ alone.err = None /\ both.err = None
                    /\ both.val[1] = InBoth(last.ret, alone.val[1])
        /\ \A i, j \in DOMAIN last.ret :
              i < j => \E k, l \in DOMAIN evidence :
                          k < l /\ evidence[k] = last.ret[i] /\ evidence[l] = last.ret[j]

FilterConjunctionWitness ==
    /\ last.op = "filter" /\ last.built
    /\ last.crit.event_type # None /\ last.crit.source = None
    /\ Len(evidence) >= 2 /\ Len(last.ret) = 1
    /\ \E b \in Criteria :
          /\ b.event_type = None /\ b.after # None /\ Agree(last.crit, b)
          /\ Len(filter(Self, b).val[1]) = 2
          /\ Len(filter(Self, Together(last.crit, b)).val[1]) = 1

\* the timestamp the range bounds are compared with: when for an Event,
\* else original_when if the Observation has one, else observed_when
RangeTime(e) ==
    IF IsEvent(e) THEN Some(e.when)
    ELSE IF e.original_when # None THEN e.original_when
    ELSE IF "observed_when" \in DOMAIN e THEN Some(e.observed_when)
    ELSE None

Within(t, c) ==
    /\ c.after # None => t >= c.after[1]
    /\ c.before # None => t <= c.before[1]

Bounded(c) == c.after # None \/ c.before # None

\* record e passes the criteria of c other than the two bounds
PassesOthers(e, c) ==
    matches(e, [c EXCEPT !.after = None, !.before = None]).val[1]

Returned(e) == \E k \in DOMAIN last.ret : last.ret[k] = e

\* C15: a range filter compares the bounds with when for an Event, else with
\* original_when if the Observation has one, else with observed_when; an
\* Observation with original_when inside and observed_when outside the range
\* is returned, one with original_when outside and observed_when inside is
\* not.
TimestampPriority ==
    (last.op = "filter" /\ last.built) =>
        \A k \in DOMAIN evidence :
            LET e == evidence[k]
            IN /\ RangeTime(e) # None =>
                     (Returned(e) <=>
                        (PassesOthers(e, last.crit) /\ Within(RangeTime(e)[1], last.crit)))
               /\ (/\ IsObservation(e) /\ e.original_when # None
                   /\ "observed_when" \in DOMAIN e /\ PassesOthers(e, last.crit)) =>
                     /\ (/\ Within(e.original_when[1], last.crit)
                         /\ ~Within(e.observed_when, last.crit)) => Returned(e)
                     /\ (/\ ~Within(e.original_when[1], last.crit)
                         /\ Within(e.observed_when, last.crit)) => ~Returned(e)

TimestampPriorityWitness ==
    /\ last.op = "filter" /\ last.built
    /\ last.crit.before # None /\ last.crit.after = None
    /\ \E k \in DOMAIN last.ret :
          /\ IsObservation(last.ret[k]) /\ last.ret[k].original_when # None
          /\ Within(last.ret[k].original_when[1], last.crit)
          /\ ~Within(last.ret[k].observed_when, last.crit)

\* C16: a record with no resolvable timestamp is never returned by filter
\* when an after or a before bound is supplied, and is returned, subject to
\* the other criteria, when neither is.
UntimedExcludedFromRanges ==
    (last.op = "filter" /\ last.built) =>
        \A k \in DOMAIN evidence :
            RangeTime(evidence[k]) = None =>
               IF Bounded(last.crit) THEN ~Returned(evidence[k])
               ELSE Returned(evidence[k]) <=> PassesOthers(evidence[k], last.crit)

\* C17: every store operation other than deserialization returns normally;
\* filter with a source string that names no verification source returns a
\* list, on an empty and on a non-empty store.
StoreOperationsTotal ==
    last.op \notin {"from_json", "reload"} => last.built

\* the store held a record with that id before the call
Held(id) == \E k \in DOMAIN evidence : evidence[k].evidence_id = id

\* C18: remove(id) returns true exactly when the store held a record with
\* that id; after true the id is not contained, get(id) is None, the size is
\* smaller by one and the other records are present in the same order; after
\* false the store is unchanged.
RemoveFrame ==
    [][last'.op = "remove" =>
          /\ last'.ret = <<Held(last'.id)>>
          /\ Held(last'.id) =>
                /\ ~contains(Store(evidence', by_id'), last'.id)
                /\ get(Store(evidence', by_id'), last'.id) = None
                /\ Len(evidence') = Len(evidence) - 1
                /\ evidence' = SelectSeq(evidence,
                                         LAMBDA e : e.evidence_id # last'.id)
          /\ ~Held(last'.id) => (evidence' = evidence /\ by_id' = by_id)]_vars

\* C19: the index and the list agree: get(id) is None when no held record has
\* the id, otherwise it is the record iteration yields for the id; id in
\* store, get(id) not None and the id occurring in iteration are equivalent;
\* len(store) is the number of distinct ids held.
IndexAgreesWithList ==
    /\ \A id \in StoreIds :
          /\ ~Held(id) => get(Self, id) = None
          /\ Held(id) =>
                /\ get(Self, id) # None
                /\ \A k \in DOMAIN evidence :
                      evidence[k].evidence_id = id => evidence[k] = get(Self, id)[1]
          /\ contains(Self, id) <=> (get(Self, id) # None)
          /\ contains(Self, id) <=> Held(id)
    /\ len(Self) = Cardinality(Ids(evidence))

\* add called once for each of the first n records of list, in order
AddedOneByOne(s, list, n) ==
    LET step[k \in 0..n] == IF k = 0 THEN s ELSE add(step[k - 1], list[k])
    IN step[n]

\* C20: merge(other) and add_all(records) leave the receiving store in the
\* state that add called once per record, in iteration order, produces; merge
\* leaves the other store unchanged.
MergeIsRepeatedAdd ==
    [][last'.op \in {"merge", "add_all"} =>
          /\ Store(evidence', by_id') =
                AddedOneByOne(Self, last'.recs, Len(last'.recs))
          /\ last'.op = "merge" => last'.ret = last'.recs]_vars

\* C21: verify and verify_all change nothing in the store: through a whole
\* pass, whatever the outcome of each record, the list holds the same records
\* in the same order with the same field values and the index is unchanged.
VerifyReadOnly ==
    [][(vpc # "idle" \/ vpc' # "idle") =>
          (evidence' = evidence /\ by_id' = by_id)]_vars

VerifyReadOnlyWitness ==
    /\ vpc = "done" /\ Len(evidence) = 2 /\ evidence = last.recs
    /\ IsObservation(evidence[1]) /\ ~results[1].is_valid
    /\ results[1].fetch_exc # None
    /\ results[2].is_valid /\ results[2].errors # <<>>

\* record k is a keyed primary-API Observation of kind t whose re-fetch
\* returned
Refetched(k, t) ==
    /\ Keyed(evidence[k]) /\ evidence[k].observation_type = t
    /\ answers[k].exc = None

\* the errors of record k whose first token is name
Named(k, name) == { j \in DOMAIN results[k].errors : results[k].errors[j][1] = name }

Count(b) == IF b THEN 1 ELSE 0

\* C22: a primary-API commit Observation whose re-fetch succeeds is valid
\* exactly when the returned SHA, message and author name equal the stored
\* ones; each disagreeing field adds its own named error and nothing raises;
\* a response differing in the author name only gives exactly one error,
\* "Author mismatch", which verify_all reports behind the record's id.
CommitComparison ==
    \A k \in DOMAIN results :
        Refetched(k, "commit") =>
           LET obs == evidence[k]
               data == answers[k].data
               sha == data.sha # obs.sha
               message == data.message # obs.message
               author == data.author # obs.author.name
           IN /\ results[k].fetch_exc = None
              /\ results[k].is_valid <=> (~sha /\ ~message /\ ~author)
              /\ Cardinality(Named(k, "SHA mismatch: expected")) = Count(sha)
              /\ Cardinality(Named(k, "Message mismatch")) = Count(message)
              /\ Cardinality(Named(k, "Author mismatch: expected")) = Count(author)
              /\ Len(results[k].errors) = Count(sha) + Count(message) + Count(author)
              /\ (author /\ vpc = "done" /\ Len(evidence) = 1) =>
                    /\ ~all_valid
                    /\ \E j \in DOMAIN all_errors :
                          /\ Mentions(all_errors[j], obs.evidence_id)
                          /\ Mentions(all_errors[j], "Author mismatch: expected")
              /\ (author /\ ~sha /\ ~message /\ vpc = "done" /\ Len(evidence) = 1) =>
                    Len(all_errors) = 1

CommitComparisonWitness ==
    /\ vpc = "done" /\ Len(evidence) = 1 /\ Refetched(1, "commit")
    /\ answers[1].data.author # evidence[1].author.name
    /\ answers[1].data.sha = evidence[1].sha
    /\ answers[1].data.message = evidence[1].message
    /\ ~all_valid /\ Len(all_errors) = 1

\* C23: a primary-API issue/PR Observation is compared on number, on title
\* only when a title was recorded and on state only when a state was
\* recorded; the live state is "merged" whenever the response's merged flag
\* is true, whatever its raw state, and the raw state otherwise.
IssueComparison ==
    \A k \in DOMAIN results :
        Refetched(k, "issue") =>
           LET obs == evidence[k]
               data == answers[k].data
               live == IF data.merged THEN "merged" ELSE data.state
               number == data.number # obs.issue_number
               title == obs.title # None /\ data.title # obs.title[1]
               state == obs.state # None /\ obs.state[1] # live
           IN /\ results[k].fetch_exc = None
              /\ results[k].is_valid <=> (~number /\ ~title /\ ~state)
              /\ Cardinality(Named(k, "Number mismatch: expected")) = Count(number)
              /\ Cardinality(Named(k, "Title mismatch")) = Count(title)
              /\ Cardinality(Named(k, "State mismatch: expected")) = Count(state)
              /\ Len(results[k].errors) = Count(number) + Count(title) + Count(state)
              /\ (/\ obs.state = Some("merged") /\ data.merged /\ ~number /\ ~title)
                    => results[k].is_valid
              /\ (obs.state = Some("closed") /\ data.merged) => ~results[k].is_valid

IssueComparisonWitness ==
    /\ vpc = "done" /\ Len(evidence) = 1 /\ Refetched(1, "issue")
    /\ evidence[1].state = Some("closed") /\ evidence[1].title = None
    /\ answers[1].data.merged /\ answers[1].data.state = "closed"
    /\ answers[1].data.title # ""
    /\ ~all_valid /\ Len(all_errors) = 1

\* C24: a record whose evidence_id is the empty string is rejected at
\* construction and at deserialization, so no store holds one.
EmptyIdRejected ==
    /\ (last.op \in {"construct", "deserialize"} /\ last.id = "") => ~last.built
    /\ \A k \in DOMAIN evidence : evidence[k].evidence_id # ""

HexDigits ==
    {"0", "1", "2", "3", "4", "5", "6", "7", "8", "9",
     "a", "b", "c", "d", "e", "f", "A", "B", "C", "D", "E", "F"}

IsHex(h) == \A i \in 1..Len(h) : SubSeq(h, i, i) \in HexDigits

\* C25: a commit Observation is built only from a sha of exactly 40
\* hexadecimal characters; every commit a store holds has such a sha.
ShaIsFortyHex ==
    /\ (last.op \in {"construct", "deserialize"} /\ last.built /\ last.c # "")
          => (Len(last.c) = ShaLength /\ IsHex(last.c))
    /\ \A k \in DOMAIN evidence :
          GetAttr(evidence[k], "observation_type", "") = "commit"
             => (Len(evidence[k].sha) = ShaLength /\ IsHex(evidence[k].sha))

\* a time window in YYYYMMDDHHMM form: exactly twelve digits
WellFormedWindow(w) == Len(w) = 12 /\ isdigit(w)

\* C26: query_events raises for every time window that is not exactly twelve
\* digits; a query only runs for a well-formed window, with the day, hour
\* and minute the window spells.
MalformedWindowRejected ==
    (last.op = "query_events" /\ last.built) =>
        /\ WellFormedWindow(last.id)
        /\ last.ret[1].table = "githubarchive.day." \o Slice(last.id, 0, 8)
        /\ last.ret[1].hour = Value(Slice(last.id, 8, 10))
        /\ last.ret[1].minute = Value(Slice(last.id, 10, 12))

\* counts.get(key, 0)
CountOf(counts, key) == IF key \in DOMAIN counts THEN counts[key] ELSE 0

RECURSIVE SumOf(_)
SumOf(counts) ==
    IF DOMAIN counts = {} THEN 0
    ELSE LET key == CHOOSE x \in DOMAIN counts : TRUE
         IN counts[key] + SumOf([x \in DOMAIN counts \ {key} |-> counts[x]])

\* the positions of the list whose record has value v in its field f
Having(f, v) ==
    { k \in DOMAIN evidence : f \in DOMAIN evidence[k] /\ evidence[k][f] = v }

\* C27: summary() reports total = number of records held, events[t] and
\* observations[t] = number of held Events / Observations of type t,
\* by_source[s] = number of held records with verification source s; the
\* event and observation counts sum to total, and so do the source counts.
SummaryCounts ==
    last.op = "summary" =>
        LET sm == last.ret[1]
        IN /\ sm.total = Len(evidence)
           /\ \A t \in EventTypes \cup DOMAIN sm.events :
                 CountOf(sm.events, t) = Cardinality(Having("event_type", t))
           /\ \A t \in ObservationTypes \cup DOMAIN sm.observations :
                 CountOf(sm.observations, t) = Cardinality(Having("observation_type", t))
           /\ \A src \in EvidenceSource \cup DOMAIN sm.by_source :
                 CountOf(sm.by_source, src) =
                    Cardinality({ k \in DOMAIN evidence :
                                    evidence[k].verification.source = src })
           /\ \A t \in DOMAIN sm.events : sm.events[t] > 0
           /\ \A t \in DOMAIN sm.observations : sm.observations[t] > 0
           /\ \A src \in DOMAIN sm.by_source : sm.by_source[src] > 0
           /\ SumOf(sm.events) + SumOf(sm.observations) = sm.total
           /\ SumOf(sm.by_source) = sm.total

SummaryCountsWitness ==
    /\ last.op = "summary" /\ last.ret[1].total >= 3
    /\ DOMAIN last.ret[1].events # {} /\ DOMAIN last.ret[1].observations # {}
    /\ \E t \in DOMAIN last.ret[1].observations : last.ret[1].observations[t] >= 2
    /\ \E src \in DOMAIN last.ret[1].by_source : last.ret[1].by_source[src] >= 2

\* the same Observation with the other value of is_deleted
Flipped(e) == [e EXCEPT !.is_deleted = ~@]

AddMovesToEnd ==
    [][last'.op = "add" =>
          LET r == last'.recs[1]
              listed == filter(Store(evidence', by_id'), NoCriteria)
          IN /\ evidence' # <<>> /\ evidence'[Len(evidence')] = r
             /\ Without(evidence', r.evidence_id) = Without(evidence, r.evidence_id)
             /\ evidence' = Append(Without(evidence, r.evidence_id), r)
             /\ ~Raised(listed) /\ listed.val[1] = evidence'
             /\ ~Held(r.evidence_id) => evidence' = Append(evidence, r)]_vars

AddMovesToEndWitness ==
    /\ last.op = "add" /\ last.k = 1 /\ Len(evidence) = 3
    /\ evidence[3] = last.recs[1]
    /\ evidence[1].evidence_id # last.id /\ evidence[2].evidence_id # last.id
    /\ evidence[1].evidence_id # evidence[2].evidence_id

\* C30: for stores with unique ids, merging the same store a second time
\* changes nothing, and s.merge(s) returns leaving s with the same records
\* in the same order.
MergeIdempotent ==
    [][(last'.op = "merge" /\ UniqueIds) =>
          /\ last'.c = "self" => (evidence' = evidence /\ by_id' = by_id)
          /\ (last'.c = "other" /\ last'.k = 1) =>
                (evidence' = evidence /\ by_id' = by_id)]_vars

MergeIdempotentWitness ==
    /\ last.op = "merge" /\ last.c = "other" /\ last.k = 1
    /\ Len(last.recs) = 2 /\ UniqueIds /\ Len(evidence) = 3
    /\ evidence[2] = last.recs[1] /\ evidence[3] = last.recs[2]

====
